---------------------------- MODULE Spec2Model ----------------------------
(***************************************************************************)
(* Bytecode compiler and stack VM of wacir (kei-s/wacir).                  *)
(*                                                                         *)
(* The model follows src/src/code.rs (opcode table, encoder, decoder),     *)
(* src/src/compiler/mod.rs (AST -> bytecode), src/src/compiler/            *)
(* symbol_table.rs (define / resolve), src/src/vm/frame.rs (Frame) and     *)
(* src/src/vm/mod.rs (VM::run).  Byte offsets and stack indices are        *)
(* 0-based as in the source; TLA+ sequences are 1-based, so ins[p + 1] is  *)
(* the byte at offset p.                                                   *)
(***************************************************************************)
EXTENDS Integers, Sequences, FiniteSets, TLC

(***************************************************************************)
(* code.rs : opcodes                                                       *)
(***************************************************************************)

\* The variants of enum Opcode in declaration order: #[repr(u8)] numbers
\* them 0, 1, 2, ...
OpcodeOrder ==
    << "OpConstant", "OpAdd", "OpPop", "OpSub", "OpMul", "OpDiv", "OpTrue",
       "OpFalse", "OpEqual", "OpNotEqual", "OpGreaterThan", "OpMinus",
       "OpBang", "OpJumpNotTruthy", "OpJump", "OpNull", "OpGetGlobal",
       "OpSetGlobal", "OpArray", "OpHash", "OpIndex", "OpCall",
       "OpReturnValue", "OpReturn", "OpGetLocal", "OpSetLocal" >>

Opcodes == { OpcodeOrder[i] : i \in 1..Len(OpcodeOrder) }

\* Opcode::byte : self as u8
OpByte(op) == (CHOOSE i \in 1..Len(OpcodeOrder) : OpcodeOrder[i] = op) - 1

\* Opcode::from panics ("No such opcode") on a byte that is no variant.
IsOpcodeByte(b) == b \in 0..(Len(OpcodeOrder) - 1)

\* Opcode::from(byte), for a byte that is a variant.
OpFrom(b) == OpcodeOrder[b + 1]

\* lookup(op).operand_width, as the opcode_enum! invocation lists it.
OperandWidth(op) ==
    CASE op \in { "OpConstant", "OpJumpNotTruthy", "OpJump", "OpGetGlobal",
                  "OpSetGlobal", "OpArray", "OpHash" } -> << 2 >>
      [] op \in { "OpGetLocal", "OpSetLocal" } -> << 1 >>
      [] OTHER -> << >>

RECURSIVE SumSeq(_)
SumSeq(s) == IF s = << >> THEN 0 ELSE Head(s) + SumSeq(Tail(s))

\* make(op): the opcode byte alone (instruction_len is only a capacity).
Make(op) == << OpByte(op) >>

\* The two bytes of an operand, low byte first.
U16LittleEndian(o) == << (o % 65536) % 256, (o % 65536) \div 256 >>

\* (*o as u16).to_be_bytes()
U16Bytes(o) == << (o % 65536) \div 256, (o % 65536) % 256 >>

\* A one-byte operand that stops at 255 instead of wrapping.
U8ByteSaturating(o) == << IF o > 255 THEN 255 ELSE o >>

\* *o as u8
U8Byte(o) == << o % 256 >>

\* The loop of make_with_operands with every operand written in two bytes,
\* whatever its width.
RECURSIVE EncodeOperandsTwoBytes(_, _, _)
EncodeOperandsTwoBytes(widths, operands, i) ==
    IF i > Len(operands) THEN [panic |-> FALSE, bytes |-> << >>]
    ELSE IF i > Len(widths) THEN [panic |-> TRUE, bytes |-> << >>]
    ELSE [panic |-> EncodeOperandsTwoBytes(widths, operands, i + 1).panic,
          bytes |-> << (operands[i] % 65536) \div 256,
                       (operands[i] % 65536) % 256 >>
                    \o EncodeOperandsTwoBytes(widths, operands, i + 1).bytes]

\* The loop of make_with_operands over operands.iter().enumerate(), from the
\* i-th operand on.  def.operand_width[i] is indexed by the operand's
\* position, so an operand beyond the table's widths panics (index out of
\* bounds); fewer operands than widths just end the loop.
RECURSIVE EncodeOperands(_, _, _)
EncodeOperands(widths, operands, i) ==
    IF i > Len(operands) THEN [panic |-> FALSE, bytes |-> << >>]
    ELSE IF i > Len(widths) THEN [panic |-> TRUE, bytes |-> << >>]
    ELSE LET rest == EncodeOperands(widths, operands, i + 1)
             this == IF widths[i] = 2 THEN U16Bytes(operands[i])
                     ELSE U8Byte(operands[i])
         IN  [panic |-> rest.panic, bytes |-> this \o rest.bytes]

\* make_with_operands(op, operands): [panic, bytes].
MakeWithOperands(op, operands) ==
    LET enc == EncodeOperands(OperandWidth(op), operands, 1)
    IN  [panic |-> enc.panic, bytes |-> Make(op) \o enc.bytes]

\* read_uint16(ins, start) panics when the slice start..start+2 is out of
\* range; CanRead16 is the condition under which it does not.
CanRead16(ins, start) == start + 2 <= Len(ins)

ReadUint16(ins, start) == ins[start + 1] * 256 + ins[start + 2]

CanRead8(ins, start) == start + 1 <= Len(ins)

\* read_operands(def, ins), from the i-th width on: [panic, operands,
\* offset].  A slice ins[offset..offset + width] beyond ins panics.
RECURSIVE ReadOperandsFrom(_, _, _, _)
ReadOperandsFrom(widths, ins, i, offset) ==
    IF i > Len(widths)
    THEN [panic |-> FALSE, operands |-> << >>, offset |-> offset]
    ELSE IF offset + widths[i] > Len(ins)
    THEN [panic |-> TRUE, operands |-> << >>, offset |-> offset]
    ELSE LET rest == ReadOperandsFrom(widths, ins, i + 1, offset + widths[i])
             this == IF widths[i] = 2
                     THEN ins[offset + 1] * 256 + ins[offset + 2]
                     ELSE ins[offset + 1]
         IN  [panic |-> rest.panic, operands |-> << this >> \o rest.operands,
              offset |-> rest.offset]

ReadOperands(widths, ins) == ReadOperandsFrom(widths, ins, 1, 0)

ReadUint8(ins, start) == ins[start + 1]

\* out.push_str(line), then the lines of the rest of the walk.
FmtAfter(line, rest) ==
    [panic |-> rest.panic, out |-> << line >> \o rest.out]

\* ConcatInstructions for Vec<Instructions>
RECURSIVE concat(_)
concat(instructions) ==
    IF instructions = << >> THEN << >>
    ELSE Head(instructions) \o concat(Tail(instructions))

\* The decimal digits of n.
RECURSIVE Digits(_)
Digits(n) == IF n < 10 THEN << n >> ELSE Append(Digits(n \div 10), n % 10)

\* `{:04}`: the digits, zeros before them up to a width of four.
RECURSIVE ZeroPadded4(_)
ZeroPadded4(digits) ==
    IF Len(digits) >= 4 THEN digits ELSE ZeroPadded4(<< 0 >> \o digits)

\* Instructions::fmt_instruction: the text after the offset, and the line
\* breaks it holds itself (the message about the operand count ends in one).
fmt_instruction(op, operands) ==
    IF Len(operands) # Len(OperandWidth(op))
    THEN [name |-> "ERROR: operand len does not match defined",
          operands |-> << >>, breaks |-> 1]
    ELSE CASE Len(OperandWidth(op)) = 0 ->
                [name |-> op, operands |-> << >>, breaks |-> 0]
           [] Len(OperandWidth(op)) = 1 ->
                [name |-> op, operands |-> << operands[1] >>, breaks |-> 0]
           [] OTHER ->
                [name |-> "ERROR: unhundled operand_count for",
                 operands |-> << >>, breaks |-> 0]

\* format!("{:04} {}\n", i, ...): one line of the disassembly.
FmtLine(i, text) ==
    [offset |-> ZeroPadded4(Digits(i)), name |-> text.name,
     operands |-> text.operands, breaks |-> text.breaks + 1]

\* `i += 1 + read` that leaves the operand bytes out.
fmt_advance_by_one(i, read) == i + 1

\* `i += 1 + read`
fmt_advance(i, read) == i + 1 + read

\* The loop of Debug::fmt from offset i on: [panic, out].  Opcode::from
\* panics on a byte that is no opcode, read_operands on a slice cut short.
RECURSIVE FmtFrom(_, _)
FmtFrom(ins, i) ==
    IF i >= Len(ins) THEN [panic |-> FALSE, out |-> << >>]
    ELSE IF ~IsOpcodeByte(ins[i + 1]) THEN [panic |-> TRUE, out |-> << >>]
    ELSE IF ReadOperands(OperandWidth(OpFrom(ins[i + 1])),
                         SubSeq(ins, i + 2, Len(ins))).panic
    THEN [panic |-> TRUE, out |-> << >>]
    ELSE FmtAfter(
             FmtLine(i,
                     fmt_instruction(
                         OpFrom(ins[i + 1]),
                         ReadOperands(OperandWidth(OpFrom(ins[i + 1])),
                                      SubSeq(ins, i + 2, Len(ins))).operands)),
             FmtFrom(ins,
                     fmt_advance(
                         i,
                         ReadOperands(OperandWidth(OpFrom(ins[i + 1])),
                                      SubSeq(ins, i + 2, Len(ins))).offset)))

\* impl Debug for Instructions
fmt(ins) == FmtFrom(ins, 0)

(***************************************************************************)
(* object : the value variants the compiler and the VM exchange            *)
(***************************************************************************)

Integer(n) == [t |-> "Integer", v |-> n]

Boolean(b) == [t |-> "Boolean", v |-> b]

NULL == [t |-> "Null", v |-> 0]

\* Object::String; the text is a sequence of characters.
String(chars) == [t |-> "String", v |-> chars]

TRUE_OBJ == Boolean(TRUE)

FALSE_OBJ == Boolean(FALSE)

\* object::CompiledFunction { instructions, num_locals }
CompiledFunction(instructions, num_locals) ==
    [t |-> "CompiledFunction",
     v |-> [instructions |-> instructions, num_locals |-> num_locals]]

\* object::Array { elements }
Array(elements) == [t |-> "Array", v |-> elements]

\* object::hash::HashKey of an Integer, a Boolean or a String: the variant
\* and the value, so that equal keys are the keys of equal objects.
HashKey(o) == << o.t, o.v >>

\* hash_key_of(&o) is Ok for these variants and Err for the others.
Hashable(o) == o.t \in { "Integer", "Boolean", "String" }

\* object::HashPair { key, value }
HashPair(key, value) == [key |-> key, value |-> value]

\* HashMap::new()
NoPairs == [k \in { } |-> HashPair(0, 0)]

\* object::Hash { pairs }
Hash(pairs) == [t |-> "Hash", v |-> pairs]

\* Derived PartialEq on Object: same variant and same payload.
ObjEq(a, b) == a.t = b.t /\ a.v = b.v

(***************************************************************************)
(* ast : the nodes Compile is implemented for.  The `value` field of a     *)
(* node is named after the type it holds (value: i64, bool, chars, name).  *)
(***************************************************************************)

IntegerLiteral(value) == [kind |-> "IntegerLiteral", value |-> value]

\* ast::Boolean { value }
BooleanLiteral(value) == [kind |-> "Boolean", bool |-> value]

StringLiteral(value) == [kind |-> "StringLiteral", chars |-> value]

Identifier(value) == [kind |-> "Identifier", name |-> value]

PrefixExpression(operator, right) ==
    [kind |-> "PrefixExpression", operator |-> operator, right |-> right]

InfixExpression(operator, left, right) ==
    [kind |-> "InfixExpression", operator |-> operator, left |-> left,
     right |-> right]

\* alternative: Option<BlockStatement>
NoAlternative == [some |-> FALSE, statements |-> << >>]

SomeAlternative(statements) == [some |-> TRUE, statements |-> statements]

IfExpression(condition, consequence, alternative) ==
    [kind |-> "IfExpression", condition |-> condition,
     consequence |-> consequence, alternative |-> alternative]

FunctionLiteral(parameters, body) ==
    [kind |-> "FunctionLiteral", parameters |-> parameters, body |-> body]

CallExpression(function, arguments) ==
    [kind |-> "CallExpression", function |-> function,
     arguments |-> arguments]

ArrayLiteral(elements) == [kind |-> "ArrayLiteral", elements |-> elements]

\* pairs: the (key, value) expressions in the order they are written
HashLiteral(pairs) == [kind |-> "HashLiteral", pairs |-> pairs]

IndexExpression(left, index) ==
    [kind |-> "IndexExpression", left |-> left, index |-> index]

ExpressionStatement(expression) ==
    [kind |-> "ExpressionStatement", expression |-> expression]

LetStatement(name, value) ==
    [kind |-> "LetStatement", name |-> name, value |-> value]

ReturnStatement(return_value) ==
    [kind |-> "ReturnStatement", return_value |-> return_value]

(***************************************************************************)
(* compiler/symbol_table.rs : scopes of symbols.  The compiler holds them  *)
(* as a stack (symbol_table_stack); the table on top is the innermost one  *)
(* and the tables below it are its chain of outer tables.                  *)
(***************************************************************************)

Symbol(name, scope, index) == [name |-> name, scope |-> scope, index |-> index]

\* One table: store (HashMap<String, Symbol>) and num_definitions.
NewTable == [store |-> [n \in {} |-> Symbol("", "Global", 0)],
             num_definitions |-> 0]

\* new_symbol_table_stack(): one table, the global one.
new_symbol_table_stack == << NewTable >>

\* SymbolTableStack::push
StackPush(stack) == Append(stack, NewTable)

\* SymbolTableStack::pop fails when it would leave no table.
StackPopFails(stack) == Len(stack) <= 1

\* SymbolTableStack::pop
StackPop(stack) == SubSeq(stack, 1, Len(stack) - 1)

\* SymbolTableStack::last
StackLast(stack) == stack[Len(stack)]

\* Symbol::is_global
is_global(symbol) == symbol.scope = "Global"

\* define: the symbol that the innermost table inserts for name.  A table
\* with an outer table is a local one.
DefinedSymbol(stack, name) ==
    Symbol(name,
           IF Len(stack) > 1 THEN "Local" ELSE "Global",
           StackLast(stack).num_definitions)

\* define that leaves a name the table already holds with its old symbol.
define_keeping_first(stack, name) ==
    LET top == StackLast(stack)
        symbol == Symbol(name, IF Len(stack) > 1 THEN "Local" ELSE "Global",
                         top.num_definitions)
    IN  [stack EXCEPT ![Len(stack)] =
            [store |-> [n \in DOMAIN top.store \cup {name} |->
                            IF n \in DOMAIN top.store THEN top.store[n]
                            ELSE symbol],
             num_definitions |-> top.num_definitions + 1]]

\* define that tags the symbol Global whatever table it goes to.
define_as_global(stack, name) ==
    LET top == StackLast(stack)
        symbol == Symbol(name, "Global", top.num_definitions)
    IN  [stack EXCEPT ![Len(stack)] =
            [store |-> [n \in DOMAIN top.store \cup {name} |->
                            IF n = name THEN symbol ELSE top.store[n]],
             num_definitions |-> top.num_definitions + 1]]

\* define: the stack after store.insert(name, symbol); num_definitions += 1
define(stack, name) ==
    LET top == StackLast(stack)
        symbol == DefinedSymbol(stack, name)
    IN  [stack EXCEPT ![Len(stack)] =
            [store |-> [n \in DOMAIN top.store \cup {name} |->
                            IF n = name THEN symbol ELSE top.store[n]],
             num_definitions |-> top.num_definitions + 1]]

\* resolve: own store first, then the outer tables, innermost first.
\* [some, symbol]
RECURSIVE ResolveFrom(_, _, _)
ResolveFrom(stack, name, depth) ==
    IF depth = 0 THEN [some |-> FALSE, symbol |-> Symbol("", "Global", 0)]
    ELSE IF name \in DOMAIN stack[depth].store
         THEN [some |-> TRUE, symbol |-> stack[depth].store[name]]
         ELSE ResolveFrom(stack, name, depth - 1)

\* resolve that searches the outermost table first.
RECURSIVE ResolveOutwards(_, _, _)
ResolveOutwards(stack, name, depth) ==
    IF depth > Len(stack)
    THEN [some |-> FALSE, symbol |-> Symbol("", "Global", 0)]
    ELSE IF name \in DOMAIN stack[depth].store
         THEN [some |-> TRUE, symbol |-> stack[depth].store[name]]
         ELSE ResolveOutwards(stack, name, depth + 1)

resolve_outermost_first(stack, name) == ResolveOutwards(stack, name, 1)

resolve(stack, name) == ResolveFrom(stack, name, Len(stack))

(***************************************************************************)
(* compiler/mod.rs : Compiler.  A compiler value c is the record           *)
(*   constants, symbol_table_stack : the borrowed state,                   *)
(*   scopes, scope_index           : the compilation scopes,               *)
(*   status : "ok", "err" (compile returned Err) or "panic",               *)
(*   log    : a history of the LetStatements, Identifiers and             *)
(*            FunctionLiterals compiled so far (not state of the program), *)
(*   if_log : a history of the IfExpressions compiled so far (not state    *)
(*            of the program; the properties about jumps read it).         *)
(* Every operation leaves a compiler that is not "ok" as it is: a `?` or   *)
(* a panic ends the compilation there.                                     *)
(***************************************************************************)

NoInstruction == [some |-> FALSE, opcode |-> "", position |-> 0]

EmittedInstruction(opcode, position) ==
    [some |-> TRUE, opcode |-> opcode, position |-> position]

NewCompilationScope ==
    [instructions |-> << >>, last_instruction |-> NoInstruction,
     previous_instruction |-> NoInstruction]

\* Compiler::new_with_state
new_with_state(s, constants) ==
    [constants |-> constants, symbol_table_stack |-> s,
     scopes |-> << NewCompilationScope >>, scope_index |-> 0,
     status |-> "ok", log |-> << >>, if_log |-> << >>]

IsOk(c) == c.status = "ok"

\* The history entry of one compiled node exp: `before` is the compiler
\* when the node's parts are compiled and its own instructions are not yet
\* emitted, c the compiler when the node is complete.
LogEntry(exp, before, c) ==
    [node |-> exp.kind, exp |-> exp, scope_index |-> before.scope_index,
     symbols |-> before.symbol_table_stack,
     mid |-> before.scopes[before.scope_index + 1].instructions,
     out |-> c.scopes[c.scope_index + 1].instructions]

Logged(exp, before, c) ==
    IF ~IsOk(c) THEN c
    ELSE [c EXCEPT !.log = Append(@, LogEntry(exp, before, c))]

Panicked(c) == [c EXCEPT !.status = "panic"]

Failed(c) == [c EXCEPT !.status = "err"]

\* scopes[scope_index]
CurrentScope(c) == c.scopes[c.scope_index + 1]

\* current_instructions()
current_instructions(c) == CurrentScope(c).instructions

\* emit_ins that writes to the outermost scope, whatever scope_index is.
emit_ins_outermost(c, op, ins) ==
    [c EXCEPT !.scopes[1] =
        [instructions |-> c.scopes[1].instructions \o ins,
         last_instruction |->
             EmittedInstruction(op, Len(c.scopes[1].instructions)),
         previous_instruction |-> c.scopes[1].last_instruction]]

\* add_instruction, then set_last_instruction
emit_ins(c, op, ins) ==
    LET scope == CurrentScope(c)
        pos == Len(scope.instructions)
    IN  [c EXCEPT !.scopes[c.scope_index + 1] =
            [instructions |-> scope.instructions \o ins,
             last_instruction |-> EmittedInstruction(op, pos),
             previous_instruction |-> scope.last_instruction]]

\* emit(op)
emit(c, op) ==
    IF ~IsOk(c) THEN c ELSE emit_ins(c, op, Make(op))

\* emit_with_operands(op, operands)
emit_with_operands(c, op, operands) ==
    IF ~IsOk(c) THEN c
    ELSE LET m == MakeWithOperands(op, operands)
         IN  IF m.panic THEN Panicked(c) ELSE emit_ins(c, op, m.bytes)

\* A variant of add_constant that puts obj in front of the constants.
add_constant_front(c, obj) ==
    IF ~IsOk(c) THEN c ELSE [c EXCEPT !.constants = << obj >> \o @]

\* add_constant: the compiler after constants.push(obj); the index returned
\* is constants.len() - 1 afterwards.
add_constant(c, obj) ==
    IF ~IsOk(c) THEN c ELSE [c EXCEPT !.constants = Append(@, obj)]

AddedConstantIndex(c) == Len(c.constants) - 1

\* last_instruction_is(op)
last_instruction_is(c, op) ==
    /\ CurrentScope(c).last_instruction.some
    /\ CurrentScope(c).last_instruction.opcode = op

\* remove_last_pop
remove_last_pop(c) ==
    LET scope == CurrentScope(c)
    IN  IF ~IsOk(c) THEN c
        ELSE IF ~scope.last_instruction.some THEN Panicked(c)
        ELSE [c EXCEPT !.scopes[c.scope_index + 1] =
                [instructions |->
                     SubSeq(scope.instructions, 1,
                            scope.last_instruction.position),
                 last_instruction |-> scope.previous_instruction,
                 previous_instruction |-> NoInstruction]]

\* replace_instruction(pos, new_instruction): byte by byte; writing past the
\* end of the instructions panics.
replace_instruction(c, pos, new_instruction) ==
    LET ins == current_instructions(c)
    IN  IF ~IsOk(c) THEN c
        ELSE IF pos + Len(new_instruction) > Len(ins) THEN Panicked(c)
        ELSE [c EXCEPT !.scopes[c.scope_index + 1].instructions =
                [i \in 1..Len(ins) |->
                    IF i - 1 >= pos /\ i - 1 < pos + Len(new_instruction)
                    THEN new_instruction[i - pos] ELSE ins[i]]]

\* A variant of change_operand that writes the offset after operand.
change_operand_past(c, op_pos, operand) ==
    IF ~IsOk(c) THEN c
    ELSE IF op_pos >= Len(current_instructions(c))
            \/ ~IsOpcodeByte(current_instructions(c)[op_pos + 1])
         THEN Panicked(c)
    ELSE replace_instruction(
             c, op_pos,
             MakeWithOperands(OpFrom(current_instructions(c)[op_pos + 1]),
                              << operand + 1 >>).bytes)

\* change_operand(op_pos, operand)
change_operand(c, op_pos, operand) ==
    LET ins == current_instructions(c)
    IN  IF ~IsOk(c) THEN c
        ELSE IF op_pos >= Len(ins) \/ ~IsOpcodeByte(ins[op_pos + 1])
             THEN Panicked(c)
        ELSE LET m == MakeWithOperands(OpFrom(ins[op_pos + 1]), << operand >>)
             IN  IF m.panic THEN Panicked(c)
                 ELSE replace_instruction(c, op_pos, m.bytes)

\* enter_scope
enter_scope(c) ==
    IF ~IsOk(c) THEN c
    ELSE [c EXCEPT !.scopes = Append(@, NewCompilationScope),
                   !.scope_index = @ + 1,
                   !.symbol_table_stack = StackPush(@)]

\* leave_scope: `self.scopes.pop().unwrap().instructions`, what it returns
\* when it does not panic.
LeftInstructions(c) ==
    IF c.scopes = << >> THEN << >>
    ELSE c.scopes[Len(c.scopes)].instructions

\* leave_scope that leaves the symbol tables as they are.
leave_scope_keeping_symbols(c) ==
    IF ~IsOk(c) THEN c
    ELSE IF c.scope_index = 0
         THEN Panicked([c EXCEPT !.scopes = SubSeq(@, 1, Len(@) - 1)])
    ELSE [c EXCEPT !.scopes = SubSeq(@, 1, Len(@) - 1),
                   !.scope_index = @ - 1]

\* leave_scope: the compiler afterwards; the instructions it returns are
\* those of the scope that was current.  In the main scope
\* scopes.pop().unwrap() succeeds, then `scope_index -= 1` on 0 panics
\* where overflow is checked and wraps where it is not, and there pop()
\* of the one-table symbol stack fails: a panic in every build.
leave_scope(c) ==
    IF ~IsOk(c) THEN c
    ELSE IF c.scope_index = 0 \/ StackPopFails(c.symbol_table_stack)
         THEN Panicked([c EXCEPT !.scopes = SubSeq(@, 1, Len(@) - 1)])
    ELSE [c EXCEPT !.scopes = SubSeq(@, 1, Len(@) - 1),
                   !.scope_index = @ - 1,
                   !.symbol_table_stack = StackPop(@)]

\* replace_last_pop_with_return that records the new opcode without
\* writing it into the instructions.
keep_last_pop(c) ==
    IF ~IsOk(c) \/ ~CurrentScope(c).last_instruction.some THEN c
    ELSE [c EXCEPT !.scopes[c.scope_index + 1].last_instruction.opcode =
                       "OpReturnValue"]

\* replace_last_pop_with_return
replace_last_pop_with_return(c) ==
    LET scope == CurrentScope(c)
    IN  IF ~IsOk(c) THEN c
        ELSE IF ~scope.last_instruction.some THEN Panicked(c)
        ELSE LET r == replace_instruction(c, scope.last_instruction.position,
                                          Make("OpReturnValue"))
             IN  IF ~IsOk(r) THEN r
                 ELSE [r EXCEPT !.scopes[c.scope_index + 1].last_instruction
                                    .opcode = "OpReturnValue"]

(***************************************************************************)
(* compiler/mod.rs : impl Compile for the AST nodes                        *)
(***************************************************************************)

RECURSIVE CompileExpression(_, _)
RECURSIVE CompileStatement(_, _)
RECURSIVE CompileStatements(_, _, _)
RECURSIVE CompileExpressions(_, _, _)
RECURSIVE DefineParameters(_, _, _)
RECURSIVE CompilePairs(_, _, _)

RECURSIVE LocalDefinitions(_, _)

\* symbol_table_stack.define(name) on the compiler's stack
CompilerDefine(c, name) ==
    IF ~IsOk(c) THEN c
    ELSE [c EXCEPT !.symbol_table_stack = define(@, name)]

\* LetStatement, after the value: define, then OpSetGlobal or OpSetLocal
\* with the index of the symbol defined.
EmitLet(c, name) ==
    emit_with_operands(
        CompilerDefine(c, name),
        IF is_global(DefinedSymbol(c.symbol_table_stack, name))
        THEN "OpSetGlobal" ELSE "OpSetLocal",
        << DefinedSymbol(c.symbol_table_stack, name).index >>)

\* impl Compile for LetStatement
LetAfterValue(stmt, c) == Logged(stmt, c, EmitLet(c, stmt.name))

CompileLetStatement(stmt, c) ==
    LetAfterValue(stmt, CompileExpression(stmt.value, c))

\* impl Compile for Statement
CompileStatement(stmt, c) ==
    IF ~IsOk(c) THEN c
    ELSE CASE stmt.kind = "ExpressionStatement" ->
                emit(CompileExpression(stmt.expression, c), "OpPop")
           [] stmt.kind = "LetStatement" -> CompileLetStatement(stmt, c)
           [] stmt.kind = "ReturnStatement" ->
                emit(CompileExpression(stmt.return_value, c), "OpReturnValue")

\* impl Compile for Program and for BlockStatement: each statement in
\* order, from the i-th on.
CompileStatements(statements, c, i) ==
    IF ~IsOk(c) \/ i > Len(statements) THEN c
    ELSE CompileStatements(statements, CompileStatement(statements[i], c),
                           i + 1)

\* `for el in ... { el.compile(compiler)?; }` from the i-th on
CompileExpressions(expressions, c, i) ==
    IF ~IsOk(c) \/ i > Len(expressions) THEN c
    ELSE CompileExpressions(expressions,
                            CompileExpression(expressions[i], c), i + 1)

\* `for p in &self.parameters { define(&p.value) }` from the i-th on
DefineParameters(parameters, c, i) ==
    IF ~IsOk(c) \/ i > Len(parameters) THEN c
    ELSE DefineParameters(parameters, CompilerDefine(c, parameters[i]), i + 1)

\* InfixExpression, after the operands: the match on the operator.
EmitInfix(c, operator) ==
    CASE operator = "+" -> emit(c, "OpAdd")
      [] operator = "-" -> emit(c, "OpSub")
      [] operator = "*" -> emit(c, "OpMul")
      [] operator = "/" -> emit(c, "OpDiv")
      [] operator = ">" -> emit(c, "OpGreaterThan")
      [] operator = "==" -> emit(c, "OpEqual")
      [] operator = "!=" -> emit(c, "OpNotEqual")
      [] OTHER -> IF IsOk(c) THEN Failed(c) ELSE c

\* InfixExpression that compiles the operands of `<` left then right.
CompileInfixInOrder(exp, c) ==
    IF exp.operator = "<"
    THEN emit(CompileExpression(exp.right, CompileExpression(exp.left, c)),
              "OpGreaterThan")
    ELSE EmitInfix(CompileExpression(exp.right,
                                     CompileExpression(exp.left, c)),
                   exp.operator)

\* impl Compile for InfixExpression: `<` compiles right then left and emits
\* OpGreaterThan.
CompileInfixExpression(exp, c) ==
    IF exp.operator = "<"
    THEN emit(CompileExpression(exp.left, CompileExpression(exp.right, c)),
              "OpGreaterThan")
    ELSE EmitInfix(CompileExpression(exp.right,
                                     CompileExpression(exp.left, c)),
                   exp.operator)

\* PrefixExpression, after the operand: the match on the operator.
EmitPrefix(c, operator) ==
    CASE operator = "!" -> emit(c, "OpBang")
      [] operator = "-" -> emit(c, "OpMinus")
      [] OTHER -> IF IsOk(c) THEN Failed(c) ELSE c

\* impl Compile for PrefixExpression
CompilePrefixExpression(exp, c) ==
    EmitPrefix(CompileExpression(exp.right, c), exp.operator)

\* emit_with_operands(OpConstant, &[add_constant(obj)])
EmitConstant(c, obj) ==
    emit_with_operands(add_constant(c, obj), "OpConstant",
                       << AddedConstantIndex(add_constant(c, obj)) >>)

\* impl Compile for IntegerLiteral
CompileIntegerLiteral(exp, c) == EmitConstant(c, Integer(exp.value))

\* impl Compile for StringLiteral
CompileStringLiteral(exp, c) == EmitConstant(c, String(exp.chars))

\* impl Compile for Boolean
CompileBoolean(exp, c) ==
    IF exp.bool THEN emit(c, "OpTrue") ELSE emit(c, "OpFalse")

\* `if compiler.last_instruction_is(OpPop) { compiler.remove_last_pop() }`
RemovePopIfLast(c) ==
    IF IsOk(c) /\ last_instruction_is(c, "OpPop") THEN remove_last_pop(c)
    ELSE c

\* The history entry of one compiled IfExpression: where its code starts,
\* where its two jumps are, and what the finished code holds there.
IfLogEntry(c, start, jump_not_truthy_pos, jump_pos, exp) ==
    [scope_index |-> c.scope_index, start |-> start,
     jump_not_truthy_pos |-> jump_not_truthy_pos, jump_pos |-> jump_pos,
     jump_not_truthy_operand |->
         ReadUint16(current_instructions(c), jump_not_truthy_pos + 1),
     jump_operand |-> ReadUint16(current_instructions(c), jump_pos + 1),
     end |-> Len(current_instructions(c)), exp |-> exp]

\* IfExpression, when its code is complete: the history entry.
IfLogged(exp, c, start, jump_not_truthy_pos, jump_pos) ==
    IF ~IsOk(c) THEN c
    ELSE [c EXCEPT !.if_log =
             Append(@, IfLogEntry(c, start, jump_not_truthy_pos, jump_pos,
                                  exp))]

\* IfExpression, after the alternative:
\* change_operand(jump_pos, after_alternative_pos)
IfAfterAlternative(exp, c, start, jump_not_truthy_pos, jump_pos) ==
    IfLogged(exp, change_operand(c, jump_pos, Len(current_instructions(c))),
             start, jump_not_truthy_pos, jump_pos)

\* IfExpression: the alternative without its last OpPop, or OpNull.
CompileAlternative(exp, c) ==
    IF exp.alternative.some
    THEN RemovePopIfLast(CompileStatements(exp.alternative.statements, c, 1))
    ELSE emit(c, "OpNull")

\* IfExpression, after the OpJump is emitted:
\* change_operand(jump_not_truthy_pos, after_consequense_pos), alternative
IfAfterJump(exp, c, start, jump_not_truthy_pos, jump_pos) ==
    IfAfterAlternative(
        exp,
        CompileAlternative(
            exp,
            change_operand(c, jump_not_truthy_pos,
                           Len(current_instructions(c)))),
        start, jump_not_truthy_pos, jump_pos)

\* IfExpression, after the consequence (its last OpPop removed):
\* jump_pos = emit_with_operands(OpJump, &[9999])
IfAfterConsequence(exp, c, start, jump_not_truthy_pos) ==
    IfAfterJump(exp, emit_with_operands(c, "OpJump", << 9999 >>), start,
                jump_not_truthy_pos, Len(current_instructions(c)))

\* IfExpression, after the condition:
\* jump_not_truthy_pos = emit_with_operands(OpJumpNotTruthy, &[9999]),
\* consequence
IfAfterCondition(exp, c, start) ==
    IfAfterConsequence(
        exp,
        RemovePopIfLast(
            CompileStatements(
                exp.consequence,
                emit_with_operands(c, "OpJumpNotTruthy", << 9999 >>), 1)),
        start, Len(current_instructions(c)))

\* impl Compile for IfExpression
CompileIfExpression(exp, c) ==
    IfAfterCondition(exp, CompileExpression(exp.condition, c),
                     Len(current_instructions(c)))

\* Identifier that emits OpGetGlobal whatever the scope of the symbol.
CompileIdentifierAsGlobal(exp, c) ==
    IF ~resolve(c.symbol_table_stack, exp.name).some THEN Panicked(c)
    ELSE Logged(
             exp, c,
             emit_with_operands(
                 c, "OpGetGlobal",
                 << resolve(c.symbol_table_stack, exp.name).symbol.index >>))

\* impl Compile for Identifier: an unresolved name panics in expect().
CompileIdentifier(exp, c) ==
    LET r == resolve(c.symbol_table_stack, exp.name)
    IN  IF ~r.some THEN Panicked(c)
        ELSE Logged(
                 exp, c,
                 emit_with_operands(
                     c,
                     IF is_global(r.symbol) THEN "OpGetGlobal"
                     ELSE "OpGetLocal",
                     << r.symbol.index >>))

\* FunctionLiteral, after the body:
\* `if last_instruction_is(OpPop) { replace_last_pop_with_return() }`
ReplacePopIfLast(c) ==
    IF IsOk(c) /\ last_instruction_is(c, "OpPop")
    THEN replace_last_pop_with_return(c) ELSE c

\* `if !last_instruction_is(OpReturnValue) { emit(OpReturn) }`
EmitReturnIfNone(c) ==
    IF IsOk(c) /\ ~last_instruction_is(c, "OpReturnValue")
    THEN emit(c, "OpReturn") ELSE c

\* The definitions of every table above the global one, from the i-th on.
LocalDefinitions(stack, i) ==
    IF i > Len(stack) THEN 0
    ELSE stack[i].num_definitions + LocalDefinitions(stack, i + 1)

\* The end of FunctionLiteral with num_locals counting the definitions of
\* the enclosing functions too.
EmitFunctionCountingEnclosing(c) ==
    EmitConstant(leave_scope(c),
                 CompiledFunction(
                     current_instructions(c),
                     LocalDefinitions(c.symbol_table_stack, 2)))

\* num_locals = symbol_table_stack.last().num_definitions;
\* instructions = leave_scope(); the CompiledFunction becomes a constant.
EmitFunction(c) ==
    EmitConstant(leave_scope(c),
                 CompiledFunction(
                     current_instructions(c),
                     StackLast(c.symbol_table_stack).num_definitions))

\* FunctionLiteral, after the body: the two repairs of its end, then the
\* constant.
FunctionAfterBody(exp, c) ==
    EmitFunction(Logged(exp, c, EmitReturnIfNone(ReplacePopIfLast(c))))

\* impl Compile for FunctionLiteral
CompileFunctionLiteral(exp, c) ==
    FunctionAfterBody(
        exp,
        CompileStatements(
            exp.body,
            DefineParameters(exp.parameters, enter_scope(c), 1),
            1))

\* impl Compile for CallExpression
CompileCallExpression(exp, c) ==
    emit_with_operands(
        CompileExpressions(exp.arguments,
                           CompileExpression(exp.function, c), 1),
        "OpCall", << Len(exp.arguments) >>)

\* impl Compile for ArrayLiteral
CompileArrayLiteral(exp, c) ==
    emit_with_operands(CompileExpressions(exp.elements, c, 1), "OpArray",
                       << Len(exp.elements) >>)

\* `for (key, value) in &self.pairs { key.compile; value.compile }` from
\* the i-th pair on
CompilePairs(pairs, c, i) ==
    IF ~IsOk(c) \/ i > Len(pairs) THEN c
    ELSE CompilePairs(pairs,
                      CompileExpression(pairs[i][2],
                                        CompileExpression(pairs[i][1], c)),
                      i + 1)

\* impl Compile for HashLiteral
CompileHashLiteral(exp, c) ==
    emit_with_operands(CompilePairs(exp.pairs, c, 1), "OpHash",
                       << Len(exp.pairs) * 2 >>)

\* impl Compile for IndexExpression
CompileIndexExpression(exp, c) ==
    emit(CompileExpression(exp.index, CompileExpression(exp.left, c)),
         "OpIndex")

\* impl Compile for Expression; a variant without an arm reaches todo!().
CompileExpression(exp, c) ==
    IF ~IsOk(c) THEN c
    ELSE CASE exp.kind = "InfixExpression" -> CompileInfixExpression(exp, c)
           [] exp.kind = "IntegerLiteral" -> CompileIntegerLiteral(exp, c)
           [] exp.kind = "Boolean" -> CompileBoolean(exp, c)
           [] exp.kind = "PrefixExpression" -> CompilePrefixExpression(exp, c)
           [] exp.kind = "IfExpression" -> CompileIfExpression(exp, c)
           [] exp.kind = "Identifier" -> CompileIdentifier(exp, c)
           [] exp.kind = "StringLiteral" -> CompileStringLiteral(exp, c)
           [] exp.kind = "ArrayLiteral" -> CompileArrayLiteral(exp, c)
           [] exp.kind = "HashLiteral" -> CompileHashLiteral(exp, c)
           [] exp.kind = "IndexExpression" -> CompileIndexExpression(exp, c)
           [] exp.kind = "FunctionLiteral" -> CompileFunctionLiteral(exp, c)
           [] exp.kind = "CallExpression" -> CompileCallExpression(exp, c)
           [] OTHER -> Panicked(c)

\* Compiler::compile(program)
compile(c, program) == CompileStatements(program, c, 1)

\* Compiler::bytecode(): the main scope's instructions (scopes.pop()) and
\* the constants.
bytecode(c) ==
    [instructions |-> c.scopes[Len(c.scopes)].instructions,
     constants |-> c.constants]

(***************************************************************************)
(* vm/frame.rs                                                             *)
(***************************************************************************)

\* new_frame(func, base_pointer); a frame is modelled by the instructions
\* of its function (Frame::instructions is all that is read of func).
new_frame(func_instructions, base_pointer) ==
    [instructions |-> func_instructions, ip |-> 0,
     base_pointer |-> base_pointer]

(***************************************************************************)
(* vm/mod.rs : the machine.  The operators below take and return a         *)
(* machine record m holding the VM's fields and the outcome so far:        *)
(*   status "ok"    : still running,                                       *)
(*          "err"   : run has returned Err(err),                           *)
(*          "panic" : the thread has panicked (err names the cause).       *)
(* Like `?`, every operator leaves a machine that is not "ok" as it is.    *)
(***************************************************************************)

STACK_SIZE == 2048

NoObject == [some |-> FALSE, value |-> NULL]

SomeObject(o) == [some |-> TRUE, value |-> o]

MOk(m) == m.status = "ok"

MErr(m, msg) == [m EXCEPT !.status = "err", !.err = msg]

MPanic(m, msg) == [m EXCEPT !.status = "panic", !.err = msg]

\* current_frame(): frames[frame_index - 1]
MFrame(m) == m.frames[m.frame_index]

MIns(m) == MFrame(m).instructions

MIp(m) == MFrame(m).ip

\* current_frame() panics without a frame: frame_index 0 makes
\* frame_index - 1 underflow, an index past the frames is out of bounds.
HasFrame(m) == m.frame_index >= 1 /\ m.frame_index <= Len(m.frames)

\* current_frame().ip = ip
SetIp(m, ip) ==
    IF ~MOk(m) THEN m
    ELSE IF ~HasFrame(m) THEN MPanic(m, "no current frame")
    ELSE [m EXCEPT !.frames[m.frame_index].ip = ip]

\* current_frame().ip += n
AddIp(m, n) ==
    IF ~MOk(m) THEN m
    ELSE IF ~HasFrame(m) THEN MPanic(m, "no current frame")
    ELSE [m EXCEPT !.frames[m.frame_index].ip = @ + n]

\* VM::push that refuses only above STACK_SIZE.
push_above_limit(m, o) ==
    IF ~MOk(m) THEN m
    ELSE IF m.sp > STACK_SIZE THEN MErr(m, "stack overflow")
    ELSE [m EXCEPT !.stack = Append(@, o), !.sp = @ + 1]

\* VM::push
push(m, o) ==
    IF ~MOk(m) THEN m
    ELSE IF m.sp >= STACK_SIZE THEN MErr(m, "stack overflow")
    ELSE [m EXCEPT !.stack = Append(@, o), !.sp = @ + 1]

\* The object VM::pop returns when it does not panic.
Popped(m) == m.stack[Len(m.stack)]

\* VM::pop that does not record what it has popped.
pop_forgetting(m) ==
    IF ~MOk(m) THEN m
    ELSE IF Len(m.stack) = 0 \/ m.sp = 0
         THEN MPanic(m, "pop on empty stack")
    ELSE [m EXCEPT !.stack = SubSeq(@, 1, Len(@) - 1), !.sp = @ - 1]

\* VM::pop that records only the first value popped.
pop_keeping_first(m) ==
    IF ~MOk(m) THEN m
    ELSE IF Len(m.stack) = 0 \/ m.sp = 0
         THEN MPanic(m, "pop on empty stack")
    ELSE [m EXCEPT !.stack = SubSeq(@, 1, Len(@) - 1), !.sp = @ - 1,
                   !.last_popped_stack_elem =
                       IF @.some THEN @ ELSE SomeObject(Popped(m))]

\* VM::pop : stack.pop(), sp -= 1, unwrap(), last_popped_stack_elem.  On an
\* empty stack sp - 1 underflows or unwrap() meets None: a panic.
pop(m) ==
    IF ~MOk(m) THEN m
    ELSE IF Len(m.stack) = 0 \/ m.sp = 0
         THEN MPanic(m, "pop on empty stack")
    ELSE [m EXCEPT !.stack = SubSeq(@, 1, Len(@) - 1), !.sp = @ - 1,
                   !.last_popped_stack_elem = SomeObject(Popped(m))]

\* push_frame
push_frame(m, frame) ==
    IF ~MOk(m) THEN m
    ELSE [m EXCEPT !.frames = Append(@, frame), !.frame_index = @ + 1]

\* pop_frame: frame_index -= 1; frames.pop().unwrap()
pop_frame(m) ==
    IF ~MOk(m) THEN m
    ELSE IF m.frame_index = 0 \/ Len(m.frames) = 0
         THEN MPanic(m, "pop_frame without frame")
    ELSE [m EXCEPT !.frames = SubSeq(@, 1, Len(@) - 1),
                   !.frame_index = @ - 1]

\* native_bool_to_boolean_object
native_bool_to_boolean_object(input) == IF input THEN TRUE_OBJ ELSE FALSE_OBJ

\* is_truthy that takes Null for truthy.
is_truthy_but_for_false(obj) ==
    CASE obj.t = "Boolean" -> obj.v
      [] OTHER -> TRUE

\* is_truthy
is_truthy(obj) ==
    CASE obj.t = "Boolean" -> obj.v
      [] obj.t = "Null" -> FALSE
      [] OTHER -> TRUE

\* execute_binary_integer_operation
execute_binary_integer_operation(m, op, left_value, right_value) ==
    CASE op = "OpAdd" -> push(m, Integer(left_value + right_value))
      [] op = "OpSub" -> push(m, Integer(left_value - right_value))
      [] op = "OpMul" -> push(m, Integer(left_value * right_value))
      [] op = "OpDiv" ->
            IF right_value = 0 THEN MPanic(m, "attempt to divide by zero")
            ELSE LET q == (IF left_value < 0 THEN -left_value ELSE left_value)
                          \div
                          (IF right_value < 0 THEN -right_value
                           ELSE right_value)
                 IN  push(m, Integer(IF (left_value < 0) = (right_value < 0)
                                     THEN q ELSE -q))
      [] OTHER -> MErr(m, "unknown integer oprerator")

\* execute_binary_string_operation
execute_binary_string_operation(m, op, left_value, right_value) ==
    IF op # "OpAdd" THEN MErr(m, "unknown string operator")
    ELSE push(m, String(left_value \o right_value))

\* execute_binary_operation that takes the first value popped for the left
\* operand.
execute_binary_operation_swapped(m, op) ==
    LET m1 == pop(m)
        m2 == pop(m1)
    IN  IF ~MOk(m2) THEN m2
        ELSE LET left == Popped(m)
                 right == Popped(m1)
             IN  IF left.t = "Integer" /\ right.t = "Integer"
                 THEN execute_binary_integer_operation(m2, op, left.v, right.v)
                 ELSE IF left.t = "String" /\ right.t = "String"
                 THEN execute_binary_string_operation(m2, op, left.v,
                                                      right.v)
                 ELSE MErr(m2, "unsupported object")

\* execute_binary_operation
execute_binary_operation(m, op) ==
    LET m1 == pop(m)
        m2 == pop(m1)
    IN  IF ~MOk(m2) THEN m2
        ELSE LET right == Popped(m)
                 left == Popped(m1)
             IN  IF left.t = "Integer" /\ right.t = "Integer"
                 THEN execute_binary_integer_operation(m2, op, left.v, right.v)
                 ELSE IF left.t = "String" /\ right.t = "String"
                 THEN execute_binary_string_operation(m2, op, left.v,
                                                      right.v)
                 ELSE MErr(m2, "unsupported object")

\* execute_integer_comparison(op, left_value, right_value)
execute_integer_comparison(m, op, left_value, right_value) ==
    CASE op = "OpEqual" ->
            push(m, native_bool_to_boolean_object(right_value = left_value))
      [] op = "OpNotEqual" ->
            push(m, native_bool_to_boolean_object(right_value # left_value))
      [] op = "OpGreaterThan" ->
            push(m, native_bool_to_boolean_object(right_value > left_value))
      [] OTHER -> MErr(m, "unknown operator")

\* execute_comparison: `right` is popped first, and the integer arm is
\* entered with (left_value, right_value) bound to (right, left).
execute_comparison(m, op) ==
    LET m1 == pop(m)
        m2 == pop(m1)
    IN  IF ~MOk(m2) THEN m2
        ELSE LET right == Popped(m)
                 left == Popped(m1)
             IN  IF right.t = "Integer" /\ left.t = "Integer"
                 THEN execute_integer_comparison(m2, op, right.v, left.v)
                 ELSE CASE op = "OpEqual" ->
                            push(m2, native_bool_to_boolean_object(
                                         ObjEq(right, left)))
                        [] op = "OpNotEqual" ->
                            push(m2, native_bool_to_boolean_object(
                                         ~ObjEq(right, left)))
                        [] OTHER -> MErr(m2, "unknown operator")

\* execute_bang_operator
execute_bang_operator(m) ==
    LET m1 == pop(m)
    IN  IF ~MOk(m1) THEN m1
        ELSE LET operand == Popped(m)
             IN  CASE ObjEq(operand, TRUE_OBJ) -> push(m1, FALSE_OBJ)
                   [] ObjEq(operand, FALSE_OBJ) -> push(m1, TRUE_OBJ)
                   [] ObjEq(operand, NULL) -> push(m1, TRUE_OBJ)
                   [] OTHER -> push(m1, FALSE_OBJ)

\* execute_minus_operator that answers Null for what is no integer.
execute_minus_operator_or_null(m) ==
    LET m1 == pop(m)
    IN  IF ~MOk(m1) THEN m1
        ELSE IF Popped(m).t = "Integer"
             THEN push(m1, Integer(-Popped(m).v))
             ELSE push(m1, NULL)

\* execute_minus_operator
execute_minus_operator(m) ==
    LET m1 == pop(m)
    IN  IF ~MOk(m1) THEN m1
        ELSE IF Popped(m).t = "Integer"
             THEN push(m1, Integer(-Popped(m).v))
             ELSE MErr(m1, "unsupported type for negation")

(***************************************************************************)
(* vm/mod.rs : the arms of the match in VM::run.  Each takes the machine   *)
(* at the top of a loop iteration, with the opcode at ip decoded, and      *)
(* returns it at the end of the arm; RunArm adds the increment that        *)
(* follows the match.  cs is the constants the VM borrows.                 *)
(***************************************************************************)

\* Opcode::OpConstant
ArmOpConstant(m, cs) ==
    IF ~CanRead16(MIns(m), MIp(m) + 1) THEN MPanic(m, "operand out of range")
    ELSE LET const_index == ReadUint16(MIns(m), MIp(m) + 1)
             m1 == AddIp(m, 2)
         IN  IF const_index >= Len(cs)
             THEN MPanic(m1, "constant index out of bounds")
             ELSE push(m1, cs[const_index + 1])

\* Opcode::OpJump : ip = pos - 1.  pos = 0 underflows: a panic with overflow
\* checks, and without them a wrap that the increment after the match
\* undoes (wraps says which build runs).
ArmOpJump(m, wraps) ==
    IF ~CanRead16(MIns(m), MIp(m) + 1) THEN MPanic(m, "operand out of range")
    ELSE LET pos == ReadUint16(MIns(m), MIp(m) + 1)
         IN  IF pos = 0 /\ ~wraps
             THEN MPanic(m, "attempt to subtract with overflow")
             ELSE SetIp(m, pos - 1)

\* Opcode::OpJumpNotTruthy
ArmOpJumpNotTruthy(m, wraps) ==
    IF ~CanRead16(MIns(m), MIp(m) + 1) THEN MPanic(m, "operand out of range")
    ELSE LET pos == ReadUint16(MIns(m), MIp(m) + 1)
             m1 == AddIp(m, 2)
             m2 == pop(m1)
         IN  IF ~MOk(m2) THEN m2
             ELSE IF is_truthy(Popped(m1)) THEN m2
             ELSE IF pos = 0 /\ ~wraps
                  THEN MPanic(m2, "attempt to subtract with overflow")
             ELSE SetIp(m2, pos - 1)

\* The write of OpSetGlobal: push when globals.len() == global_index,
\* otherwise globals[global_index] = popped, which panics out of range.
SetGlobalSlot(m, global_index, popped) ==
    IF ~MOk(m) THEN m
    ELSE IF Len(m.globals) = global_index
         THEN [m EXCEPT !.globals = Append(@, popped)]
    ELSE IF global_index > Len(m.globals)
         THEN MPanic(m, "global index out of bounds")
    ELSE [m EXCEPT !.globals[global_index + 1] = popped]

\* Opcode::OpSetGlobal
ArmOpSetGlobal(m) ==
    IF ~CanRead16(MIns(m), MIp(m) + 1) THEN MPanic(m, "operand out of range")
    ELSE LET global_index == ReadUint16(MIns(m), MIp(m) + 1)
             m1 == AddIp(m, 2)
             m2 == pop(m1)
         IN  IF ~MOk(m2) THEN m2
             ELSE SetGlobalSlot(m2, global_index, Popped(m1))

\* Opcode::OpGetGlobal
ArmOpGetGlobal(m) ==
    IF ~CanRead16(MIns(m), MIp(m) + 1) THEN MPanic(m, "operand out of range")
    ELSE LET global_index == ReadUint16(MIns(m), MIp(m) + 1)
             m1 == AddIp(m, 2)
         IN  IF global_index >= Len(m1.globals)
             THEN MPanic(m1, "global index out of bounds")
             ELSE push(m1, m1.globals[global_index + 1])

\* The stack index OpCall reads the callee from: self.sp - 1.
CalleeIndex(m) == m.sp - 1

\* Opcode::OpCall : new_frame(func.clone()) names no base pointer, so the
\* frame's base_pointer is whatever bp is.  The arm ends in `continue`.
ArmOpCall(m, bp) ==
    IF CalleeIndex(m) < 0 \/ CalleeIndex(m) >= Len(m.stack)
    THEN MPanic(m, "stack index out of bounds")
    ELSE LET obj == m.stack[CalleeIndex(m) + 1]
         IN  IF obj.t = "CompiledFunction"
             THEN push_frame(m, new_frame(obj.v.instructions, bp))
             ELSE MErr(m, "calling non-function")

\* Opcode::OpReturnValue
ArmOpReturnValue(m) ==
    LET m1 == pop(m)
        m2 == pop(pop_frame(m1))
    IN  IF ~MOk(m2) THEN m2 ELSE push(m2, Popped(m))

\* Opcode::OpReturn
ArmOpReturn(m) == push(pop(pop_frame(m)), NULL)

\* self.stack.drain(start..end), its values taken: the stack without them.
Drain(m, start, end) ==
    [m EXCEPT !.stack = SubSeq(@, 1, start) \o SubSeq(@, end + 1, Len(@))]

\* build_array that takes as many values from the bottom of the stack.
build_array_from_bottom(m, start, end) ==
    Array(SubSeq(m.stack, 1, end - start))

\* build_array(start, end): the values of the range, lowest index first.
build_array(m, start, end) == Array(SubSeq(m.stack, start + 1, end))

\* An insert that leaves a key the map holds already with its pair.
InsertIfAbsent(pairs, key, value) ==
    [k \in DOMAIN pairs \cup { HashKey(key) } |->
        IF k \in DOMAIN pairs THEN pairs[k] ELSE HashPair(key, value)]

\* pairs.insert(hash_key, HashPair { key, value })
Insert(pairs, key, value) ==
    [k \in DOMAIN pairs \cup { HashKey(key) } |->
        IF k = HashKey(key) THEN HashPair(key, value) ELSE pairs[k]]

\* The loop of build_hash over the drained values from the i-th on:
\* [err, pairs].  A key without a value ends the loop; hash_key_of(&key)?
\* returns its Err.
RECURSIVE BuildPairs(_, _, _)
BuildPairs(items, i, pairs) ==
    IF i + 1 > Len(items) THEN [err |-> FALSE, pairs |-> pairs]
    ELSE IF ~Hashable(items[i]) THEN [err |-> TRUE, pairs |-> pairs]
    ELSE BuildPairs(items, i + 2, Insert(pairs, items[i], items[i + 1]))

\* build_hash(start, end)
build_hash(m, start, end) ==
    BuildPairs(SubSeq(m.stack, start + 1, end), 1, NoPairs)

\* OpArray after the operand is read: build_array(sp - n, sp); sp -= n;
\* push(array).  sp - n below 0 underflows, or wraps into a range that
\* drain refuses: a panic.
ArrayBuilt(m, num_elements) ==
    IF ~MOk(m) THEN m
    ELSE IF num_elements > m.sp \/ m.sp > Len(m.stack)
         THEN MPanic(m, "range out of bounds")
    ELSE push([Drain(m, m.sp - num_elements, m.sp)
                  EXCEPT !.sp = @ - num_elements],
              build_array(m, m.sp - num_elements, m.sp))

\* Opcode::OpArray
ArmOpArray(m) ==
    IF ~CanRead16(MIns(m), MIp(m) + 1) THEN MPanic(m, "operand out of range")
    ELSE ArrayBuilt(AddIp(m, 2), ReadUint16(MIns(m), MIp(m) + 1))

\* OpHash after the operand is read: build_hash(sp - n, sp)?; sp -= n;
\* push(hash).  The Err of build_hash leaves sp as it was.
HashBuilt(m, num_elements) ==
    IF ~MOk(m) THEN m
    ELSE IF num_elements > m.sp \/ m.sp > Len(m.stack)
         THEN MPanic(m, "range out of bounds")
    ELSE IF build_hash(m, m.sp - num_elements, m.sp).err
         THEN MErr(Drain(m, m.sp - num_elements, m.sp),
                   "unusable as hash key")
    ELSE push([Drain(m, m.sp - num_elements, m.sp)
                  EXCEPT !.sp = @ - num_elements],
              Hash(build_hash(m, m.sp - num_elements, m.sp).pairs))

\* Opcode::OpHash
ArmOpHash(m) ==
    IF ~CanRead16(MIns(m), MIp(m) + 1) THEN MPanic(m, "operand out of range")
    ELSE HashBuilt(AddIp(m, 2), ReadUint16(MIns(m), MIp(m) + 1))

\* execute_array_index
execute_array_index(m, array, index) ==
    IF index < 0 \/ index + 1 > Len(array) THEN push(m, NULL)
    ELSE push(m, array[index + 1])

\* execute_hash_index
execute_hash_index(m, hash, index) ==
    IF ~Hashable(index) THEN MErr(m, "unusable as hash key")
    ELSE IF HashKey(index) \in DOMAIN hash
         THEN push(m, hash[HashKey(index)].value)
    ELSE push(m, NULL)

\* execute_index_expression
execute_index_expression(m, left, index) ==
    IF left.t = "Array" /\ index.t = "Integer"
    THEN execute_array_index(m, left.v, index.v)
    ELSE IF left.t = "Hash" THEN execute_hash_index(m, left.v, index)
    ELSE MErr(m, "index operator not supported")

\* Opcode::OpIndex: index = pop(); left = pop()
ArmOpIndex(m) ==
    LET m1 == pop(m)
        m2 == pop(m1)
    IN  IF ~MOk(m2) THEN m2
        ELSE execute_index_expression(m2, Popped(m1), Popped(m))

\* `_ => todo!("unknown Opcode: {:?}", op)`
ArmTodo(m) == MPanic(m, "not yet implemented")

\* The opcodes that have an arm of their own in run.
ArmOpcodes ==
    { "OpConstant", "OpAdd", "OpSub", "OpMul", "OpDiv", "OpPop", "OpTrue",
      "OpFalse", "OpEqual", "OpNotEqual", "OpGreaterThan", "OpBang",
      "OpMinus", "OpJump", "OpJumpNotTruthy", "OpNull", "OpSetGlobal",
      "OpGetGlobal", "OpArray", "OpHash", "OpIndex", "OpCall",
      "OpReturnValue", "OpReturn" }

\* `self.current_frame().ip += 1;` after the match
RunArm(m) == AddIp(m, 1)

(***************************************************************************)
(* State.                                                                  *)
(*                                                                         *)
(* The driver is the loop of repl.rs / run_vm_tests: a symbol table        *)
(* stack, constants and globals that outlive each input, a compiler per    *)
(* input, a VM per compiled input.  A VM can also be handed ByteCode that  *)
(* no compiler of this repository made (its fields are public).            *)
(***************************************************************************)

VARIABLES
    session,                \* "none", "repl" (inputs are compiled) or
                            \* "bytecode" (one ByteCode handed to the VM)
    call_layout,            \* how the handed ByteCode encodes OpCall
    phase,                  \* "idle", "compiled", "run" or "crashed"
    result,                 \* outcome of the last compile or run
    err,                    \* the error or panic message of the last run
    inputs,                 \* number of inputs read so far
    input,                  \* the program last given to compile
    symbol_table_stack,     \* SymbolTableStack owned by the driver
    constants,              \* Vec<Object> owned by the driver
    globals,                \* Vec<Object> owned by the driver
    pending,                \* the ByteCode the next VM is made of
    stack, sp, last_popped_stack_elem, frames, frame_index,  \* VM fields
    if_log,                 \* history: IfExpressions of the last compile
    compile_log,            \* history: lets, identifiers and functions of
                            \* the last compile
    stmt_ends,              \* history: offsets at which the top-level
                            \* statements of the last compile end
    if_entry_sp,            \* history: sp when the code of an if was entered
    call_log,               \* history: the calls that have not returned
    code_call,              \* the last call of a function of code.rs made
                            \* on its own, with what it returned
    symbol_call,            \* the last call made on the symbol tables on
                            \* their own, with what it returned
    compiler,               \* a Compiler whose scopes are entered and left
                            \* directly (test_compiler_scopes)
    scope_call,             \* the last method called on that Compiler
    scope_returned          \* the Instructions the last leave_scope returned

driver_vars == << session, call_layout, inputs, input, symbol_table_stack,
                  constants, pending, if_log, compile_log, stmt_ends,
                  code_call, symbol_call, compiler, scope_call,
                    scope_returned >>

vm_vars == << stack, sp, last_popped_stack_elem, frames, frame_index >>

vars == << session, call_layout, phase, result, err, inputs, input,
           symbol_table_stack, constants, globals, pending, stack, sp,
           last_popped_stack_elem, frames, frame_index, if_log, compile_log,
           stmt_ends, if_entry_sp, call_log, code_call, symbol_call,
           compiler, scope_call, scope_returned >>

(***************************************************************************)
(* Inputs: the programs given to compile                                   *)
(***************************************************************************)

Int1 == IntegerLiteral(1)

Int2 == IntegerLiteral(2)

Names == { "a", "b" }

Atoms ==
    { Int1, Int2, BooleanLiteral(TRUE), BooleanLiteral(FALSE),
      Identifier("a") }

\* if (true) { 2 }
InnerIf ==
    IfExpression(BooleanLiteral(TRUE), << ExpressionStatement(Int2) >>,
                 NoAlternative)

BlockStatements ==
    { ExpressionStatement(Int1), LetStatement("a", Int2),
      ReturnStatement(Int1), ExpressionStatement(InnerIf) }

\* The blocks of an if: empty, one statement, or `1; 2`.
Blocks ==
    { << >>, << ExpressionStatement(Int1), ExpressionStatement(Int2) >> }
        \cup { << s >> : s \in BlockStatements }

Alternatives == { NoAlternative } \cup { SomeAlternative(b) : b \in Blocks }

\* The last one is an if without alternative whose condition is false: Null.
Conditions ==
    { BooleanLiteral(TRUE), BooleanLiteral(FALSE), Int1,
      InfixExpression("<", Int1, Int2),
      IfExpression(BooleanLiteral(FALSE), << ExpressionStatement(Int1) >>,
                   NoAlternative) }

Ifs ==
    { IfExpression(c, b, alt) : c \in Conditions, b \in Blocks,
                                alt \in Alternatives }

FunctionBodies ==
    Blocks \cup { << ExpressionStatement(Identifier("a")) >>,
                  << LetStatement("b", Int1),
                     ExpressionStatement(Identifier("b")) >> }

Functions ==
    { FunctionLiteral(ps, b) : ps \in { << >>, << "a" >>, << "a", "b" >> },
                               b \in FunctionBodies }

Operations ==
    { InfixExpression(op, Int1, Int2) :
          op \in { "+", "-", "*", "/", ">", "<", "==", "!=", "&&" } }
    \cup { PrefixExpression(op, x) :
               op \in { "!", "-", "+" }, x \in { Int1, BooleanLiteral(TRUE) } }
    \cup { InfixExpression("+", Int1, BooleanLiteral(TRUE)),
           InfixExpression("==", BooleanLiteral(TRUE), BooleanLiteral(FALSE)),
           InfixExpression(">", BooleanLiteral(TRUE), Int1),
           InfixExpression("/", Int1, IntegerLiteral(0)),
           InfixExpression("/", IntegerLiteral(-7), Int2),
           InfixExpression("+", StringLiteral(<< "m" >>),
                           StringLiteral(<< "k" >>)),
           InfixExpression("-", StringLiteral(<< "m" >>),
                           StringLiteral(<< "k" >>)),
           PrefixExpression("!", InnerIf) }

\* if (false) { 1 }: Null
NullIf ==
    IfExpression(BooleanLiteral(FALSE), << ExpressionStatement(Int1) >>,
                 NoAlternative)

\* The operands of `!`: an integer, the booleans, Null, a string.
BangOperands ==
    { Int1, BooleanLiteral(TRUE), BooleanLiteral(FALSE), NullIf,
      StringLiteral(<< "m" >>) }

\* !x and !!x
Bangs ==
    { PrefixExpression("!", x) : x \in BangOperands }
        \cup { PrefixExpression("!", PrefixExpression("!", x)) :
                   x \in BangOperands }

Int0 == IntegerLiteral(0)

\* [1, 2]
Array12 == ArrayLiteral(<< Int1, Int2 >>)

\* {1: 2, 2: 1}
Hash12 == HashLiteral(<< << Int1, Int2 >>, << Int2, Int1 >> >>)

\* {1: 1, 1: 2}: the key 1 is written twice
HashTwice == HashLiteral(<< << Int1, Int1 >>, << Int1, Int2 >> >>)

\* {true: 1, "m": 2}
HashMixed ==
    HashLiteral(<< << BooleanLiteral(TRUE), Int1 >>,
                   << StringLiteral(<< "m" >>), Int2 >> >>)

\* {1: 2, [1, 2]: 1}: the second key is an array
HashOfArrayKey == HashLiteral(<< << Int1, Int2 >>, << Array12, Int1 >> >>)

\* Array and hash literals, some of them built above other values.
Literals ==
    { ArrayLiteral(<< >>), Array12, ArrayLiteral(<< Int2, Array12 >>),
      ArrayLiteral(<< Int2, Int1, Int2 >>),
      HashLiteral(<< >>), Hash12, HashTwice, HashMixed, HashOfArrayKey,
      ArrayLiteral(<< Int2, Hash12 >>),
      ArrayLiteral(<< Int2, HashOfArrayKey >>) }

\* Index expressions on arrays, on hashes and on an integer.
Indexings ==
    { IndexExpression(Array12, i) :
          i \in { Int0, Int1, Int2, PrefixExpression("-", Int1),
                  BooleanLiteral(TRUE) } }
        \cup { IndexExpression(h, i) :
                   h \in { Hash12, HashTwice, HashMixed },
                   i \in { Int0, Int1, BooleanLiteral(TRUE),
                           StringLiteral(<< "m" >>), Array12 } }
        \cup { IndexExpression(ArrayLiteral(<< >>), Int0),
               IndexExpression(HashLiteral(<< >>), Int0),
               IndexExpression(Int1, Int0),
               ArrayLiteral(<< Int2, IndexExpression(Array12, Int1) >>) }

\* Comparisons of two integers and of two booleans.
Comparisons ==
    { InfixExpression(op, IntegerLiteral(a), IntegerLiteral(b)) :
          op \in { ">", "<", "==", "!=" }, a \in 1..2, b \in 1..2 }
    \cup { InfixExpression(op, BooleanLiteral(a), BooleanLiteral(b)) :
               op \in { "==", "!=" }, a \in BOOLEAN, b \in BOOLEAN }

\* fn(a, b) { let c = 1; fn() { let d = a; b } }
NestedReadingOuter ==
    FunctionLiteral(
        << "a", "b" >>,
        << LetStatement("c", Int1),
           ExpressionStatement(
               FunctionLiteral(
                   << >>,
                   << LetStatement("d", Identifier("a")),
                      ExpressionStatement(Identifier("b")) >>)) >>)

\* fn(a) { let b = fn(c) { let d = 2; let e = 1; c }; b }
NestedInLet ==
    FunctionLiteral(
        << "a" >>,
        << LetStatement(
               "b",
               FunctionLiteral(
                   << "c" >>,
                   << LetStatement("d", Int2), LetStatement("e", Int1),
                      ExpressionStatement(Identifier("c")) >>)),
           ExpressionStatement(Identifier("b")) >>)

\* fn(a) { if (a) { let b = 1; let a = 2; }; fn(a) { a } }
NestedShadowing ==
    FunctionLiteral(
        << "a" >>,
        << ExpressionStatement(
               IfExpression(
                   Identifier("a"),
                   << LetStatement("b", Int1), LetStatement("a", Int2) >>,
                   NoAlternative)),
           ExpressionStatement(
               FunctionLiteral(
                   << "a" >>,
                   << ExpressionStatement(Identifier("a")) >>)) >>)

\* Function literals inside function literals.
NestedFunctions == { NestedReadingOuter, NestedInLet, NestedShadowing }

\* fn() { 1 && 2 }: the body has an operator the compiler refuses.
RefusedBody ==
    FunctionLiteral(
        << >>, << ExpressionStatement(InfixExpression("&&", Int1, Int2)) >>)

Calls ==
    { CallExpression(FunctionLiteral(<< >>, << ExpressionStatement(Int1) >>),
                     << >>),
      CallExpression(Identifier("a"), << Int1 >>),
      CallExpression(
          FunctionLiteral(<< "a" >>,
                          << ExpressionStatement(Identifier("a")) >>),
          << Int2 >>) }

\* An Expression variant that impl Compile for Expression has no arm for.
Unsupported == { [kind |-> "MacroLiteral"] }

Expressions ==
    Atoms \cup Ifs \cup Functions \cup Operations \cup Comparisons \cup Calls
          \cup Bangs \cup Literals \cup Indexings \cup NestedFunctions
          \cup { RefusedBody }
          \cup Unsupported \cup { StringLiteral(<< "m" >>) }

Statements ==
    { ExpressionStatement(e) : e \in Expressions }
        \cup { LetStatement(n, e) : n \in Names, e \in Atoms }
        \cup { LetStatement("a", e) :
                   e \in { FunctionLiteral(<< >>, << >>), InnerIf } }
        \cup { ReturnStatement(Int1) }

FollowStatements ==
    { ExpressionStatement(Identifier("a")),
      ExpressionStatement(Identifier("b")),
      LetStatement("b", Int2),
      LetStatement("a", Identifier("a")),
      ExpressionStatement(Int1),
      ExpressionStatement(
          FunctionLiteral(<< >>, << ExpressionStatement(Identifier("a")) >>)),
      ExpressionStatement(
          FunctionLiteral(<< "a" >>,
                          << ExpressionStatement(Identifier("a")) >>)) }

\* The programs of the first input, and of the inputs after it.
FirstPrograms ==
    { << s >> : s \in Statements }
        \cup { << s, t >> : s \in Statements, t \in FollowStatements }

LaterPrograms == { << t >> : t \in FollowStatements }

MaxInputs == 2

InputPrograms(n) == IF n = 0 THEN FirstPrograms ELSE LaterPrograms

\* The offsets at which the top-level statements of program end, when it is
\* compiled by c.
StatementEnds(c, program) ==
    { Len(current_instructions(
              CompileStatements(SubSeq(program, 1, k), c, 1))) :
          k \in 1..Len(program) }

(***************************************************************************)
(* Inputs: ByteCode handed to the VM directly.  OpCall is written in one   *)
(* of two layouts: "operand", the opcode followed by a one-byte argument   *)
(* count (what compiler/mod.rs asks emit_with_operands for and what its    *)
(* tests expect), or "bare", the opcode alone (what code.rs encodes).      *)
(***************************************************************************)

CallLayouts == { "operand", "bare" }

Item(op, operands) == [op |-> op, operands |-> operands]

RECURSIVE Assemble(_, _)
Assemble(items, layout) ==
    IF items = << >> THEN << >>
    ELSE LET it == Head(items)
             bytes ==
                 IF it.op = "OpCall"
                 THEN (IF layout = "operand"
                       THEN Make("OpCall") \o U8Byte(it.operands[1])
                       ELSE Make("OpCall"))
                 ELSE MakeWithOperands(it.op, it.operands).bytes
         IN  bytes \o Assemble(Tail(items), layout)

Const(i) == Item("OpConstant", << i >>)

\* Constants 0 and 1 are integers, the others functions.
RawIntegers == << Integer(1), Integer(2) >>

FirstFn == Len(RawIntegers)

\* The bodies of the functions among the handed constants.
FnBodies ==
    << << Const(0), Item("OpReturnValue", << >>) >>,
       << Item("OpReturn", << >>) >>,
       << Const(0), Const(1), Item("OpReturnValue", << >>) >>,
       << Item("OpGetLocal", << 0 >>), Item("OpReturnValue", << >>) >>,
       << Const(0), Item("OpSetLocal", << 0 >>), Item("OpReturn", << >>) >>,
       << Const(FirstFn), Item("OpCall", << 0 >>), Item("OpReturnValue", << >>) >>,
       << Const(0), Item("OpReturnValue", << >>), Const(1),
          Item("OpReturnValue", << >>) >> >>

FnIndexes == FirstFn..(FirstFn + Len(FnBodies) - 1)

RawConstants(layout) ==
    RawIntegers
        \o [i \in 1..Len(FnBodies) |->
               CompiledFunction(Assemble(FnBodies[i], layout), 0)]

MaxArgs == 2

ArgLists ==
    { SubSeq(<< Const(0), Const(1), Const(0), Const(1) >>, 1, n) :
          n \in 0..MaxArgs }
        \cup { << Const(FirstFn) >> }

\* [pre;] OpConstant f; args; OpCall argc; OpPop
CallPrograms ==
    { pre \o << Const(f) >> \o args
          \o << Item("OpCall", << Len(args) >>), Item("OpPop", << >>) >> :
          pre \in { << >>, << Const(1) >> }, f \in FnIndexes,
          args \in ArgLists }

\* [pre;] OpConstant 0; args; OpCall argc; OpPop: the callee is an integer
NonFunctionCalls ==
    { pre \o << Const(0) >> \o args
          \o << Item("OpCall", << Len(args) >>), Item("OpPop", << >>) >> :
          pre \in { << >>, << Const(1) >> }, args \in ArgLists }

GlobalItems ==
    { Const(0), Const(1), Item("OpPop", << >>), Item("OpSetGlobal", << 0 >>),
      Item("OpSetGlobal", << 1 >>), Item("OpGetGlobal", << 0 >>) }

MaxRawLen == 4

GlobalPrograms ==
    UNION { [1..n -> GlobalItems] : n \in 1..MaxRawLen }

\* Instructions no encoder of code.rs produces: unknown opcode bytes, a
\* missing operand, a jump to offset 0.
CorruptInstructions ==
    { << 26 >>, << 255 >>, << 0 >>, << 14, 0, 0 >>, << 6, 13, 0, 0 >>,
      << 14 >>, << 17, 0 >>, << 16 >>, << 6, 13 >> }

\* OpNull; then a push and a jump back to it, for ever: the stack grows by
\* one value in each round.
LoopPrograms ==
    { << Item("OpNull", << >>), pushing, Item("OpJump", << 1 >>) >> :
          pushing \in { Item("OpTrue", << >>), Const(0) } }

RawInstructions(layout) ==
    { Assemble(p, layout) :
          p \in CallPrograms \cup NonFunctionCalls \cup GlobalPrograms
                 \cup LoopPrograms }
        \cup CorruptInstructions

(***************************************************************************)
(* The VM as a machine record, and the step back into the variables.       *)
(***************************************************************************)

Machine ==
    [stack |-> stack, sp |-> sp,
     last_popped_stack_elem |-> last_popped_stack_elem, globals |-> globals,
     frames |-> frames, frame_index |-> frame_index, status |-> "ok",
     err |-> ""]

\* The frame's base_pointer where the code names none.
MaxBasePointer == 1

BasePointers == 0..MaxBasePointer

\* sp at the entry of the i-th logged if, once the main frame is at its
\* first instruction.
EntrySp(m, old) ==
    [i \in DOMAIN if_log |->
        IF /\ MOk(m) /\ m.frame_index = 1 /\ HasFrame(m)
           /\ if_log[i].scope_index = 0 /\ MIp(m) = if_log[i].start
        THEN m.sp ELSE old[i]]

\* One call of a function of code.rs: its arguments (op, operands, and ins
\* for read_operands), whether it panicked, and what it returned.
CodeCall(fn, op, operands, ins, panic, out) ==
    [fn |-> fn, op |-> op, operands |-> operands, ins |-> ins,
     panic |-> panic, out |-> out]

NoCodeCall == CodeCall("none", "", << >>, << >>, FALSE, << >>)

\* One call on the symbol tables: define(name) and the &Symbol returned,
\* resolve(name) and the Option<&Symbol> returned, or the entering or
\* leaving of a scope.
SymbolCall(fn, name, some, symbol) ==
    [fn |-> fn, name |-> name, some |-> some, symbol |-> symbol]

NoSymbolCall == SymbolCall("none", "", FALSE, Symbol("", "Global", 0))

\* The machine after a loop iteration becomes the state; an Err or a panic
\* ends the run.
Commit(m, log) ==
    /\ stack' = m.stack
    /\ sp' = m.sp
    /\ last_popped_stack_elem' = m.last_popped_stack_elem
    /\ globals' = m.globals
    /\ frames' = m.frames
    /\ frame_index' = m.frame_index
    /\ err' = m.err
    /\ phase' = CASE m.status = "ok" -> "run"
                  [] m.status = "err" -> "idle"
                  [] OTHER -> "crashed"
    /\ result' = CASE m.status = "ok" -> "none"
                   [] m.status = "err" -> "run_err"
                   [] OTHER -> "panic"
    /\ if_entry_sp' = EntrySp(m, if_entry_sp)
    /\ call_log' = IF MOk(m) THEN log ELSE call_log
    /\ UNCHANGED driver_vars

Running == phase = "run" /\ HasFrame(Machine)

\* The loop condition of run holds.
InLoop == Running /\ MIp(Machine) >= 0 /\ MIp(Machine) < Len(MIns(Machine))

FetchedByte == MIns(Machine)[MIp(Machine) + 1]

\* Opcode::from(ins.0[ip])
Fetches(ops) ==
    /\ InLoop
    /\ IsOpcodeByte(FetchedByte)
    /\ OpFrom(FetchedByte) \in ops

Init ==
    /\ session = "none"
    /\ call_layout = "none"
    /\ phase = "idle"
    /\ result = "none"
    /\ err = ""
    /\ inputs = 0
    /\ input = << >>
    /\ symbol_table_stack = new_symbol_table_stack
    /\ constants = << >>
    /\ globals = << >>
    /\ pending = [instructions |-> << >>, constants |-> << >>]
    /\ stack = << >>
    /\ sp = 0
    /\ last_popped_stack_elem = NoObject
    /\ frames = << >>
    /\ frame_index = 0
    /\ if_log = << >>
    /\ compile_log = << >>
    /\ stmt_ends = { }
    /\ if_entry_sp = << >>
    /\ call_log = << >>
    /\ code_call = NoCodeCall
    /\ symbol_call = NoSymbolCall
    /\ compiler = new_with_state(new_symbol_table_stack, << >>)
    /\ scope_call = "new_with_state"
    /\ scope_returned = << >>

(***************************************************************************)
(* The driver: one input is compiled (repl.rs, run_vm_tests) or one        *)
(* ByteCode is handed over, then a VM is made of it and run.               *)
(***************************************************************************)

\* What the driver holds after compile(program) has taken c0 to c.
Compiled(program, c0, c) ==
    /\ input' = program
    /\ symbol_table_stack' = c.symbol_table_stack
    /\ constants' = c.constants
    /\ if_log' = IF IsOk(c) THEN c.if_log ELSE << >>
    /\ compile_log' = IF IsOk(c) THEN c.log ELSE << >>
    /\ stmt_ends' = IF IsOk(c) THEN StatementEnds(c0, program) ELSE { }
    /\ pending' = IF IsOk(c) THEN bytecode(c) ELSE pending
    /\ phase' = CASE c.status = "ok" -> "compiled"
                  [] c.status = "err" -> "idle"
                  [] OTHER -> "crashed"
    /\ result' = CASE c.status = "ok" -> "compiled"
                   [] c.status = "err" -> "compile_err"
                   [] OTHER -> "panic"

\* Compiler::new_with_state; compile(program); bytecode()
CompileInput ==
    /\ phase = "idle"
    /\ session \in { "none", "repl" }
    /\ inputs < MaxInputs
    /\ \E program \in InputPrograms(inputs) :
          Compiled(program, new_with_state(symbol_table_stack, constants),
                   compile(new_with_state(symbol_table_stack, constants),
                           program))
    /\ session' = "repl"
    /\ inputs' = inputs + 1
    /\ err' = ""
    /\ UNCHANGED << call_layout, globals, vm_vars, if_entry_sp, call_log,
                    code_call, symbol_call, compiler, scope_call,
                    scope_returned >>

\* A ByteCode value built by hand (instructions and constants are public).
HandByteCode ==
    /\ phase = "idle"
    /\ session = "none"
    /\ \E layout \in CallLayouts :
          \E ins \in RawInstructions(layout) :
             /\ call_layout' = layout
             /\ constants' = RawConstants(layout)
             /\ pending' = [instructions |-> ins,
                            constants |-> RawConstants(layout)]
    /\ session' = "bytecode"
    /\ phase' = "compiled"
    /\ result' = "compiled"
    /\ inputs' = inputs + 1
    /\ UNCHANGED << err, input, symbol_table_stack, globals, vm_vars, if_log,
                    compile_log, stmt_ends, if_entry_sp, call_log,
                    code_call, symbol_call, compiler, scope_call,
                    scope_returned >>

\* VM::new_with_globals_store: new_frame(main_fn) names no base pointer.
NewVM ==
    /\ phase = "compiled"
    /\ \E bp \in BasePointers :
          frames' = << new_frame(pending.instructions, bp) >>
    /\ frame_index' = 1
    /\ stack' = << >>
    /\ sp' = 0
    /\ last_popped_stack_elem' = NoObject
    /\ phase' = "run"
    /\ result' = "none"
    /\ err' = ""
    /\ if_entry_sp' = [i \in DOMAIN if_log |->
                          IF if_log[i].scope_index = 0 /\ if_log[i].start = 0
                          THEN 0 ELSE -1]
    /\ call_log' = << >>
    /\ UNCHANGED << driver_vars, globals >>

(***************************************************************************)
(* VM::run, one loop iteration per action.                                 *)
(***************************************************************************)

DoOpConstant ==
    /\ Fetches({ "OpConstant" })
    /\ Commit(RunArm(ArmOpConstant(Machine, pending.constants)), call_log)

DoBinaryOperation ==
    /\ Fetches({ "OpAdd", "OpSub", "OpMul", "OpDiv" })
    /\ Commit(RunArm(execute_binary_operation(Machine, OpFrom(FetchedByte))),
              call_log)

DoOpPop ==
    /\ Fetches({ "OpPop" })
    /\ Commit(RunArm(pop(Machine)), call_log)

DoOpTrue ==
    /\ Fetches({ "OpTrue" })
    /\ Commit(RunArm(push(Machine, TRUE_OBJ)), call_log)

DoOpFalse ==
    /\ Fetches({ "OpFalse" })
    /\ Commit(RunArm(push(Machine, FALSE_OBJ)), call_log)

DoComparison ==
    /\ Fetches({ "OpEqual", "OpNotEqual", "OpGreaterThan" })
    /\ Commit(RunArm(execute_comparison(Machine, OpFrom(FetchedByte))),
              call_log)

DoOpBang ==
    /\ Fetches({ "OpBang" })
    /\ Commit(RunArm(execute_bang_operator(Machine)), call_log)

DoOpMinus ==
    /\ Fetches({ "OpMinus" })
    /\ Commit(RunArm(execute_minus_operator(Machine)), call_log)

DoOpJump ==
    /\ Fetches({ "OpJump" })
    /\ \E wraps \in BOOLEAN :
          Commit(RunArm(ArmOpJump(Machine, wraps)), call_log)

DoOpJumpNotTruthy ==
    /\ Fetches({ "OpJumpNotTruthy" })
    /\ \E wraps \in BOOLEAN :
          Commit(RunArm(ArmOpJumpNotTruthy(Machine, wraps)), call_log)

DoOpNull ==
    /\ Fetches({ "OpNull" })
    /\ Commit(RunArm(push(Machine, NULL)), call_log)

DoOpSetGlobal ==
    /\ Fetches({ "OpSetGlobal" })
    /\ Commit(RunArm(ArmOpSetGlobal(Machine)), call_log)

DoOpGetGlobal ==
    /\ Fetches({ "OpGetGlobal" })
    /\ Commit(RunArm(ArmOpGetGlobal(Machine)), call_log)

\* The argument count an OpCall at ip carries in the layout in use.
CallArgc(m) ==
    IF call_layout = "bare" THEN 0
    ELSE IF CanRead8(MIns(m), MIp(m) + 1) THEN ReadUint8(MIns(m), MIp(m) + 1)
    ELSE 0

\* What is remembered of a call until it returns.
CallEntry(m) ==
    [sp |-> m.sp, ip |-> MIp(m), frame_index |-> m.frame_index,
     argc |-> CallArgc(m), stack |-> m.stack]

Returned(log) == IF log = << >> THEN log ELSE SubSeq(log, 1, Len(log) - 1)

\* No RunArm: the arm ends in `continue`.
DoOpCall ==
    /\ Fetches({ "OpCall" })
    /\ \E bp \in BasePointers :
          Commit(ArmOpCall(Machine, bp),
                 Append(call_log, CallEntry(Machine)))

DoOpReturnValue ==
    /\ Fetches({ "OpReturnValue" })
    /\ Commit(RunArm(ArmOpReturnValue(Machine)), Returned(call_log))

DoOpReturn ==
    /\ Fetches({ "OpReturn" })
    /\ Commit(RunArm(ArmOpReturn(Machine)), Returned(call_log))

DoOpArray ==
    /\ Fetches({ "OpArray" })
    /\ Commit(RunArm(ArmOpArray(Machine)), call_log)

DoOpHash ==
    /\ Fetches({ "OpHash" })
    /\ Commit(RunArm(ArmOpHash(Machine)), call_log)

DoOpIndex ==
    /\ Fetches({ "OpIndex" })
    /\ Commit(RunArm(ArmOpIndex(Machine)), call_log)

\* An opcode without an arm of its own.
DoTodo ==
    /\ Fetches(Opcodes \ ArmOpcodes)
    /\ Commit(ArmTodo(Machine), call_log)

\* Opcode::from panics on a byte that is no opcode.
DoBadOpcode ==
    /\ InLoop
    /\ ~IsOpcodeByte(FetchedByte)
    /\ Commit(MPanic(Machine, "No such opcode"), call_log)

\* The loop condition fails: run returns Ok(()).
RunReturn ==
    /\ Running
    /\ MIp(Machine) >= Len(MIns(Machine))
    /\ phase' = "idle"
    /\ result' = "ok"
    /\ UNCHANGED << driver_vars, vm_vars, globals, err, if_entry_sp,
                    call_log >>

Next ==
    \/ CompileInput
    \/ HandByteCode
    \/ NewVM
    \/ DoOpConstant
    \/ DoBinaryOperation
    \/ DoOpPop
    \/ DoOpTrue
    \/ DoOpFalse
    \/ DoComparison
    \/ DoOpBang
    \/ DoOpMinus
    \/ DoOpJump
    \/ DoOpJumpNotTruthy
    \/ DoOpNull
    \/ DoOpSetGlobal
    \/ DoOpGetGlobal
    \/ DoOpArray
    \/ DoOpHash
    \/ DoOpIndex
    \/ DoOpCall
    \/ DoOpReturnValue
    \/ DoOpReturn
    \/ DoTodo
    \/ DoBadOpcode
    \/ RunReturn

Spec == Init /\ [][Next]_vars

\* One iteration of the loop of run, or its return.
RunStep ==
    \/ DoOpConstant
    \/ DoBinaryOperation
    \/ DoOpPop
    \/ DoOpTrue
    \/ DoOpFalse
    \/ DoComparison
    \/ DoOpBang
    \/ DoOpMinus
    \/ DoOpJump
    \/ DoOpJumpNotTruthy
    \/ DoOpNull
    \/ DoOpSetGlobal
    \/ DoOpGetGlobal
    \/ DoOpArray
    \/ DoOpHash
    \/ DoOpIndex
    \/ DoOpCall
    \/ DoOpReturnValue
    \/ DoOpReturn
    \/ DoTodo
    \/ DoBadOpcode
    \/ RunReturn

\* run is one sequential loop: once entered, it goes on to its next
\* iteration until it returns or panics.  Nothing is assumed of the driver.
RunSpec == Spec /\ WF_vars(RunStep)

(***************************************************************************)
(* code.rs on its own: lookup, make, make_with_operands and read_operands  *)
(* called with an opcode and operands, as the tests of code.rs call them.  *)
(* One behaviour makes one call, and reads back what it has encoded.       *)
(***************************************************************************)

MaxOperands == 2

\* The operand values given: the ends of the one-byte and of the two-byte
\* range, and the first value beyond each.
OperandValues == { 0, 1, 255, 256, 65534, 65535, 65536 }

RECURSIVE Tuples(_, _)
Tuples(values, n) ==
    IF n = 0 THEN { << >> }
    ELSE { Append(s, v) : s \in Tuples(values, n - 1), v \in values }

OperandTuples == UNION { Tuples(OperandValues, n) : n \in 0..MaxOperands }

main_vars == << session, call_layout, phase, result, err, inputs, input,
                symbol_table_stack, constants, globals, pending, stack, sp,
                last_popped_stack_elem, frames, frame_index, if_log,
                compile_log, stmt_ends, if_entry_sp, call_log, symbol_call,
                compiler, scope_call, scope_returned >>

\* The most instructions given to the disassembler at once.
MaxInstructions == 2

\* The operands of the instructions disassembled.
FmtOperandValues == { 1, 65535 }

\* An opcode with as many operands as lookup gives it widths.
WellFormedItems ==
    UNION { { Item(op, operands) :
                  operands \in Tuples(FmtOperandValues,
                                      Len(OperandWidth(op))) } :
                op \in Opcodes }

WellFormedPrograms ==
    UNION { [1..n -> WellFormedItems] : n \in 0..MaxInstructions }

\* make(op) or make_with_operands(op, operands) for each item.
MadeOf(items) ==
    [k \in DOMAIN items |->
        MakeWithOperands(items[k].op, items[k].operands).bytes]

\* lookup(&op)
CallLookup ==
    /\ code_call.fn = "none"
    /\ \E op \in Opcodes :
          code_call' = CodeCall("lookup", op, << >>, << >>, FALSE,
                                OperandWidth(op))
    /\ UNCHANGED main_vars

\* make(op)
CallMake ==
    /\ code_call.fn = "none"
    /\ \E op \in Opcodes :
          code_call' = CodeCall("make", op, << >>, << >>, FALSE, Make(op))
    /\ UNCHANGED main_vars

\* make_with_operands(op, operands)
CallMakeWithOperands ==
    /\ code_call.fn = "none"
    /\ \E op \in Opcodes, operands \in OperandTuples :
          code_call' = CodeCall("make_with_operands", op, operands, << >>,
                                MakeWithOperands(op, operands).panic,
                                IF MakeWithOperands(op, operands).panic
                                THEN << >>
                                ELSE MakeWithOperands(op, operands).bytes)
    /\ UNCHANGED main_vars

\* read_operands(&lookup(&op), &instruction[1..]) on the instruction that
\* make_with_operands has returned, as test_read_operands does.
CallReadOperands ==
    /\ code_call.fn = "make_with_operands"
    /\ ~code_call.panic
    /\ code_call' =
           CodeCall("read_operands", code_call.op, code_call.operands,
                    Tail(code_call.out),
                    ReadOperands(OperandWidth(code_call.op),
                                 Tail(code_call.out)).panic,
                    IF ReadOperands(OperandWidth(code_call.op),
                                    Tail(code_call.out)).panic
                    THEN << >>
                    ELSE << ReadOperands(OperandWidth(code_call.op),
                                         Tail(code_call.out)).operands,
                            ReadOperands(OperandWidth(code_call.op),
                                         Tail(code_call.out)).offset >>)
    /\ UNCHANGED main_vars

\* format!("{:?}", instructions.concat()) for instructions that make and
\* make_with_operands have returned, as test_instruction_string does.
CallFmt ==
    /\ code_call.fn = "none"
    /\ \E items \in WellFormedPrograms :
          code_call' = CodeCall("fmt", "", items, concat(MadeOf(items)),
                                fmt(concat(MadeOf(items))).panic,
                                fmt(concat(MadeOf(items))).out)
    /\ UNCHANGED main_vars

CodeNext ==
    \/ CallFmt
    \/ CallLookup
    \/ CallMake
    \/ CallMakeWithOperands
    \/ CallReadOperands

CodeSpec == Init /\ [][CodeNext]_vars

(***************************************************************************)
(* symbol_table.rs on its own: define and resolve on tables that enclose   *)
(* one another, as the tests of symbol_table.rs call them.                 *)
(***************************************************************************)

MaxScopes == 3

MaxDefinitions == 2

\* The names given: "c" is never defined.
SymbolNames == Names \cup { "c" }

symbol_rest_vars ==
    << session, call_layout, phase, result, err, inputs, input, constants,
       globals, pending, stack, sp, last_popped_stack_elem, frames,
       frame_index, if_log, compile_log, stmt_ends, if_entry_sp, call_log,
       code_call, compiler, scope_call, scope_returned >>

\* define(name) on the innermost table; the symbol returned is the one
\* the store then holds for name (self.store.get(name).unwrap()).
CallDefine ==
    /\ StackLast(symbol_table_stack).num_definitions < MaxDefinitions
    /\ \E name \in Names :
          /\ symbol_table_stack' = define(symbol_table_stack, name)
          /\ symbol_call' =
                 SymbolCall("define", name, TRUE,
                            StackLast(define(symbol_table_stack, name))
                                .store[name])
    /\ UNCHANGED symbol_rest_vars

\* resolve(name) from the innermost table
CallResolve ==
    /\ \E name \in SymbolNames :
          symbol_call' =
              SymbolCall("resolve", name,
                         resolve(symbol_table_stack, name).some,
                         resolve(symbol_table_stack, name).symbol)
    /\ UNCHANGED << symbol_table_stack, symbol_rest_vars >>

\* A table enclosed in the innermost one becomes the innermost.
CallPush ==
    /\ Len(symbol_table_stack) < MaxScopes
    /\ symbol_table_stack' = StackPush(symbol_table_stack)
    /\ symbol_call' = SymbolCall("push", "", FALSE, NoSymbolCall.symbol)
    /\ UNCHANGED symbol_rest_vars

\* The innermost table is dropped; the one enclosing it is the innermost.
CallPop ==
    /\ Len(symbol_table_stack) > 1
    /\ symbol_table_stack' = StackPop(symbol_table_stack)
    /\ symbol_call' = SymbolCall("pop", "", FALSE, NoSymbolCall.symbol)
    /\ UNCHANGED symbol_rest_vars

SymbolNext ==
    \/ CallDefine
    \/ CallResolve
    \/ CallPush
    \/ CallPop

SymbolSpec == Init /\ [][SymbolNext]_vars

(***************************************************************************)
(* The compilation scopes on their own: a Compiler made on a one-table     *)
(* symbol stack, on which enter_scope, leave_scope and emit are called in  *)
(* any order (test_compiler_scopes).                                       *)
(***************************************************************************)

MaxEmits == 2

ScopeOpcodes == { "OpMul", "OpSub" }

scope_rest_vars ==
    << session, call_layout, phase, result, err, inputs, input,
       symbol_table_stack, constants, globals, pending, stack, sp,
       last_popped_stack_elem, frames, frame_index, if_log, compile_log,
       stmt_ends, if_entry_sp, call_log, code_call, symbol_call >>

\* compiler.enter_scope()
CallEnterScope ==
    /\ IsOk(compiler)
    /\ Len(compiler.scopes) < MaxScopes
    /\ compiler' = enter_scope(compiler)
    /\ scope_call' = "enter_scope"
    /\ UNCHANGED << scope_returned, scope_rest_vars >>

\* compiler.leave_scope()
CallLeaveScope ==
    /\ IsOk(compiler)
    /\ compiler' = leave_scope(compiler)
    /\ scope_call' = "leave_scope"
    /\ scope_returned' = LeftInstructions(compiler)
    /\ UNCHANGED scope_rest_vars

\* compiler.emit(op)
CallEmit ==
    /\ IsOk(compiler)
    /\ Len(current_instructions(compiler)) < MaxEmits
    /\ \E op \in ScopeOpcodes : compiler' = emit(compiler, op)
    /\ scope_call' = "emit"
    /\ UNCHANGED << scope_returned, scope_rest_vars >>

ScopeNext ==
    \/ CallEnterScope
    \/ CallLeaveScope
    \/ CallEmit

ScopeSpec == Init /\ [][ScopeNext]_vars

(***************************************************************************)
(* Properties.  In an action formula the unprimed variables are the VM at  *)
(* the top of a loop iteration and the primed ones the VM after it.        *)
(***************************************************************************)

CurrentIp == MIp(Machine)

CurrentBasePointer == MFrame(Machine).base_pointer

\* The bytes the OpCall instruction takes in the layout in use.
CallLength == IF call_layout = "operand" THEN 2 ELSE 1

\* The call that has not returned yet and was made last.
LastCall == call_log[Len(call_log)]

\* The slot (from 1) the callee of an OpCall at ip is to be read from:
\* stack[sp - 1 - argc].
CalleeSlot == sp - CallArgc(Machine)

\* C1: OpCall(argc) takes the callee from stack[sp - 1 - argc] and pushes a
\* frame of that function with ip 0 and base_pointer = sp - argc; the
\* operand stack, and with it the argc arguments, stays as it is.
C1_CallTakesCalleeBelowArguments ==
    [][(/\ Fetches({ "OpCall" })
        /\ CalleeSlot \in 1..Len(stack)
        /\ stack[CalleeSlot].t = "CompiledFunction")
       => /\ phase' = "run"
          /\ frame_index' = frame_index + 1
          /\ frames'[frame_index'] =
                 new_frame(stack[CalleeSlot].v.instructions,
                           sp - CallArgc(Machine))
          /\ sp' = sp
          /\ stack' = stack]_vars

\* C2: a return pops the callee's frame and cuts the operand stack back to
\* below the function object, then pushes the value returned (Null for
\* OpReturn): the depth is the depth before the function object was pushed
\* plus one, and what was below the function object is untouched.
C2_ReturnCutsStackToBelowCallee ==
    [][(/\ Fetches({ "OpReturnValue", "OpReturn" })
        /\ call_log # << >>
        /\ LastCall.sp - LastCall.argc >= 1
        /\ sp >= 1 /\ sp = Len(stack))
       => /\ phase' = "run"
          /\ frame_index' = frame_index - 1
          /\ sp' = LastCall.sp - LastCall.argc
          /\ Len(stack') = sp'
          /\ \A i \in 1..(sp' - 1) : ObjEq(stack'[i], LastCall.stack[i])
          /\ ObjEq(stack'[sp'],
                   IF OpFrom(FetchedByte) = "OpReturnValue" THEN stack[sp]
                   ELSE NULL)]_vars

\* A step of OpCall that pushes a frame leaves the callee at offset 0.
CallEntersAtZero ==
    (Fetches({ "OpCall" }) /\ phase' = "run")
        => /\ frame_index' = frame_index + 1
           /\ frames'[frame_index'].ip = 0

\* A step of a return leaves the frame that made the call last, right
\* after its whole OpCall instruction.
ReturnResumesAfterCall ==
    (Fetches({ "OpReturnValue", "OpReturn" }) /\ call_log # << >>
        /\ phase' = "run")
        => /\ frame_index' = LastCall.frame_index
           /\ frames'[frame_index'].ip = LastCall.ip + CallLength
           /\ call_log' = Returned(call_log)

\* C3: the instruction executed after an OpCall is the callee's at offset
\* 0; the one executed after a return is the caller's right after the whole
\* OpCall instruction (opcode and operand), in the frame of the last call
\* still open, so that nothing after the return runs in the callee and the
\* calls return last-in-first-out.
C3_CallEntersAtZeroReturnResumesAfterCall ==
    [][CallEntersAtZero /\ ReturnResumesAfterCall]_vars

\* The operand of the OpGetLocal or OpSetLocal at ip.
LocalIndex == ReadUint8(MIns(Machine), CurrentIp + 1)

\* The slot (from 1) of the local: stack[base_pointer + idx].
LocalSlot == CurrentBasePointer + LocalIndex + 1

\* C4: OpGetLocal(idx) pushes stack[base_pointer + idx]; OpSetLocal(idx)
\* pops the top value into stack[base_pointer + idx]; neither touches
\* another slot or another frame.
C4_LocalsLiveAtBasePointerPlusIndex ==
    [][/\ (/\ Fetches({ "OpGetLocal" })
           /\ CanRead8(MIns(Machine), CurrentIp + 1)
           /\ sp = Len(stack) /\ LocalSlot \in 1..sp)
          => /\ phase' = "run"
             /\ sp' = sp + 1
             /\ \A i \in 1..sp : ObjEq(stack'[i], stack[i])
             /\ ObjEq(stack'[sp'], stack[LocalSlot])
             /\ frame_index' = frame_index
             /\ \A f \in 1..(frame_index - 1) : frames'[f] = frames[f]
       /\ (/\ Fetches({ "OpSetLocal" })
           /\ CanRead8(MIns(Machine), CurrentIp + 1)
           /\ sp = Len(stack) /\ sp >= 1 /\ LocalSlot \in 1..(sp - 1))
          => /\ phase' = "run"
             /\ sp' = sp - 1
             /\ ObjEq(stack'[LocalSlot], stack[sp])
             /\ \A i \in 1..sp' :
                   i # LocalSlot => ObjEq(stack'[i], stack[i])
             /\ frame_index' = frame_index
             /\ \A f \in 1..(frame_index - 1) : frames'[f] = frames[f]]_vars

\* The main frame of a run of compiled code is at offset pos.
MainFrameAt(pos) ==
    /\ session = "repl"
    /\ phase = "run"
    /\ frame_index = 1
    /\ HasFrame(Machine)
    /\ CurrentIp = pos

\* The code of the i-th logged if (one of the main scope) was entered in
\* this run and has just been left.
IfFinished(i) ==
    /\ MainFrameAt(if_log[i].end)
    /\ if_log[i].scope_index = 0
    /\ if_entry_sp[i] >= 0

\* C5: when the code of a compiled if-expression has run, whatever its
\* consequence and alternative, the operand stack is exactly one value
\* deeper than when it was entered.
C5_IfLeavesExactlyOneValue ==
    \A i \in DOMAIN if_log : IfFinished(i) => sp = if_entry_sp[i] + 1

\* C6: in a run of a program the compiler accepted, the operand stack is
\* empty after the instructions of each top-level statement, and no
\* instruction pops from an empty operand stack.
C6_StatementsLeaveStackEmpty ==
    /\ \A pos \in stmt_ends : MainFrameAt(pos) => sp = 0
    /\ session = "repl" => err # "pop on empty stack"

\* The operand of the OpSetGlobal or OpGetGlobal at ip.
GlobalIndex == ReadUint16(MIns(Machine), CurrentIp + 1)

\* A run of compiled code is about to execute one of ops, and its 2-byte
\* operand is there.
CompiledFetches(ops) ==
    /\ session = "repl"
    /\ Fetches(ops)
    /\ CanRead16(MIns(Machine), CurrentIp + 1)

\* A step of OpSetGlobal(idx) in compiled code stores the top value in slot
\* idx and changes no other slot.
SetGlobalStores ==
    (CompiledFetches({ "OpSetGlobal" }) /\ sp >= 1 /\ sp = Len(stack))
        => /\ phase' = "run"
           /\ sp' = sp - 1
           /\ Len(globals') = (IF GlobalIndex >= Len(globals)
                               THEN GlobalIndex + 1 ELSE Len(globals))
           /\ ObjEq(globals'[GlobalIndex + 1], stack[sp])
           /\ \A j \in 1..Len(globals) :
                 j # GlobalIndex + 1 => ObjEq(globals'[j], globals[j])

\* A step of OpGetGlobal(idx) in compiled code pushes the value of slot idx.
GetGlobalReads ==
    (CompiledFetches({ "OpGetGlobal" }) /\ GlobalIndex < Len(globals))
        => /\ phase' = "run"
           /\ sp' = sp + 1
           /\ ObjEq(stack'[sp'], globals[GlobalIndex + 1])
           /\ globals' = globals

\* C7: OpSetGlobal(idx) pops the top value into globals slot idx, appending
\* when idx is the length of globals, and changes no other slot;
\* OpGetGlobal(idx) pushes the value in slot idx and leaves globals alone.
C7_SetGlobalStoresGetGlobalReads ==
    [][SetGlobalStores /\ GetGlobalReads]_vars

\* C8: in a run of a program the compiler produced, every OpSetGlobal(idx)
\* executed finds idx <= globals.len() and every OpGetGlobal(idx) executed
\* finds idx < globals.len().
C8_GlobalAccessInRange ==
    /\ CompiledFetches({ "OpSetGlobal" }) => GlobalIndex <= Len(globals)
    /\ CompiledFetches({ "OpGetGlobal" }) => GlobalIndex < Len(globals)

\* a is the beginning of b.
IsPrefixOf(a, b) ==
    /\ Len(a) <= Len(b)
    /\ \A i \in 1..Len(a) : ObjEq(a[i], b[i])

\* The outermost symbol table: the globals.
GlobalTable(s) == s[1]

\* The names bound to a slot of globals that has been written.
BoundGlobals ==
    { n \in DOMAIN GlobalTable(symbol_table_stack).store :
          GlobalTable(symbol_table_stack).store[n].index < Len(globals) }

\* A step keeps the constants: it only appends to them.
ConstantsKept == IsPrefixOf(constants, constants')

\* A step keeps every bound global: its slot holds the same value, and its
\* name the same symbol unless the step compiles a new definition of the
\* name, which takes a slot not given out before.
GlobalsKept ==
    \A n \in BoundGlobals :
       LET symbol == GlobalTable(symbol_table_stack).store[n]
           table == GlobalTable(symbol_table_stack')
       IN  /\ symbol.index < Len(globals')
           /\ ObjEq(globals'[symbol.index + 1], globals[symbol.index + 1])
           /\ n \in DOMAIN table.store
           /\ \/ table.store[n] = symbol
              \/ /\ phase = "idle" /\ inputs' = inputs + 1
                 /\ table.store[n].index >=
                        GlobalTable(symbol_table_stack).num_definitions

\* A program that is the name of a global alone and has run to its end has
\* read the value in the slot of that name.
GlobalReadBack ==
    \A n \in Names :
       (/\ phase' = "idle" /\ result' = "ok"
        /\ input' = << ExpressionStatement(Identifier(n)) >>)
       => LET r == resolve(symbol_table_stack', n)
          IN  /\ r.some /\ is_global(r.symbol)
              /\ r.symbol.index < Len(globals')
              /\ last_popped_stack_elem'.some
              /\ ObjEq(last_popped_stack_elem'.value,
                       globals'[r.symbol.index + 1])

\* C9: across the inputs compiled and run against the same symbol stack,
\* constants and globals, the constants are only appended to, so that an
\* index emitted earlier denotes the same object; a global bound earlier
\* keeps its slot and value, and a later program reads it.
C9_StateOutlivesInputs ==
    [][session' = "repl" => ConstantsKept /\ GlobalsKept /\ GlobalReadBack]_vars

\* A second input has read the global `a` that the first one bound.
C9_Witness ==
    /\ session = "repl" /\ inputs = 2 /\ phase = "idle" /\ result = "ok"
    /\ input = << ExpressionStatement(Identifier("a")) >>
    /\ Len(constants) >= 1 /\ Len(globals) >= 1
    /\ last_popped_stack_elem.some
    /\ ObjEq(last_popped_stack_elem.value, globals[1])

OpJumpLength == Len(MakeWithOperands("OpJump", << 0 >>).bytes)

\* The jumps of one logged if are patched as its compilation left them.
JumpsPatched(e) ==
    /\ e.jump_not_truthy_operand = e.jump_pos + OpJumpLength
    /\ e.jump_operand = e.end
    /\ e.jump_not_truthy_operand > e.jump_not_truthy_pos
    /\ e.jump_operand > e.jump_pos
    /\ e.jump_not_truthy_operand <= e.end
    /\ e.jump_operand <= e.end

\* The instructions handed to the VM hold the jumps of an if of the main
\* scope as they were patched.
JumpsInByteCode(e) ==
    e.scope_index = 0
    => /\ e.end <= Len(pending.instructions)
       /\ pending.instructions[e.jump_not_truthy_pos + 1] =
              OpByte("OpJumpNotTruthy")
       /\ pending.instructions[e.jump_pos + 1] = OpByte("OpJump")
       /\ ReadUint16(pending.instructions, e.jump_not_truthy_pos + 1)
              = e.jump_not_truthy_operand
       /\ ReadUint16(pending.instructions, e.jump_pos + 1) = e.jump_operand

\* C10: once an IfExpression is compiled, the operand of its
\* OpJumpNotTruthy is the offset right after the OpJump that ends the
\* consequence, and the operand of that OpJump is the offset right after
\* the alternative (or the OpNull); each is greater than the offset of its
\* jump and at most the length of the instructions.
C10_JumpsPatchedForward ==
    \A i \in DOMAIN if_log :
       JumpsPatched(if_log[i]) /\ JumpsInByteCode(if_log[i])

\* An if with an alternative, with another if inside, has been compiled in
\* the main scope.
C10_Witness ==
    /\ phase = "compiled"
    /\ Len(if_log) >= 2
    /\ \E i \in DOMAIN if_log :
          /\ if_log[i].scope_index = 0
          /\ if_log[i].exp.alternative.some
          /\ if_log[i].exp.alternative.statements # << >>

(***************************************************************************)
(* Functions                                                               *)
(***************************************************************************)

\* The opcode of the last instruction of ins, read instruction by
\* instruction with the widths of lookup; "" when there is none.
RECURSIVE LastOpcodeFrom(_, _, _)
LastOpcodeFrom(ins, pos, last) ==
    IF pos >= Len(ins) THEN last
    ELSE LastOpcodeFrom(
             ins, pos + 1 + SumSeq(OperandWidth(OpFrom(ins[pos + 1]))),
             OpFrom(ins[pos + 1]))

LastOpcode(ins) == LastOpcodeFrom(ins, 0, "")

FunctionEntries ==
    { i \in DOMAIN compile_log : compile_log[i].node = "FunctionLiteral" }

\* The instructions of a function are those of its body with the end
\* repaired: a last OpPop replaced where it stands, else OpReturn appended
\* unless the body ends in OpReturnValue.
ReturnRepaired(e) ==
    CASE LastOpcode(e.mid) = "OpPop" ->
            e.out = SubSeq(e.mid, 1, Len(e.mid) - 1) \o Make("OpReturnValue")
      [] LastOpcode(e.mid) = "OpReturnValue" -> e.out = e.mid
      [] OTHER -> e.out = e.mid \o Make("OpReturn")

\* The function compiled for a history entry is among the constants.
FunctionIsConstant(e) ==
    \E i \in DOMAIN constants :
       /\ constants[i].t = "CompiledFunction"
       /\ constants[i].v.instructions = e.out

\* C11: the instructions of every CompiledFunction the compiler produces
\* end with OpReturnValue or OpReturn: a last OpPop of the body is replaced
\* in place by OpReturnValue, and a body that then does not end in
\* OpReturnValue (an empty one included) gets OpReturn appended.
C11_FunctionsEndInReturn ==
    session = "repl"
    => /\ \A i \in DOMAIN constants :
             constants[i].t = "CompiledFunction"
             => LastOpcode(constants[i].v.instructions)
                    \in { "OpReturnValue", "OpReturn" }
       /\ \A i \in FunctionEntries :
             ReturnRepaired(compile_log[i])
             /\ FunctionIsConstant(compile_log[i])

\* A function whose body ends in an expression statement has been compiled.
C11_Witness ==
    /\ result = "compiled"
    /\ \E i \in FunctionEntries :
          /\ LastOpcode(compile_log[i].mid) = "OpPop"
          /\ Len(compile_log[i].exp.parameters) = 1

(***************************************************************************)
(* Comparisons                                                             *)
(***************************************************************************)

\* The program last given is the comparison e alone, and its compilation
\* and run are over.
ComparisonDone(e) ==
    /\ session = "repl"
    /\ input = << ExpressionStatement(e) >>
    /\ phase \in { "idle", "crashed" }

\* What the comparison e of two literals is to yield.
ComparisonValue(e) ==
    IF e.left.kind = "IntegerLiteral"
    THEN CASE e.operator = ">" -> e.left.value > e.right.value
           [] e.operator = "<" -> e.left.value < e.right.value
           [] e.operator = "==" -> e.left.value = e.right.value
           [] e.operator = "!=" -> e.left.value # e.right.value
    ELSE CASE e.operator = "==" -> e.left.bool = e.right.bool
           [] e.operator = "!=" -> e.left.bool # e.right.bool

\* C12: compiled and run, `a > b` and `a < b` on integers yield the Boolean
\* of the comparison (`<` through its swapped operands and OpGreaterThan),
\* and `==` and `!=` on two integers or two booleans yield their equality
\* and inequality.
C12_ComparisonsYieldBoolean ==
    \A e \in Comparisons :
       ComparisonDone(e)
       => /\ result = "ok"
          /\ last_popped_stack_elem.some
          /\ ObjEq(last_popped_stack_elem.value, Boolean(ComparisonValue(e)))

\* `1 < 2` has run and left true.
C12_Witness ==
    /\ ComparisonDone(InfixExpression("<", IntegerLiteral(1),
                                      IntegerLiteral(2)))
    /\ result = "ok"
    /\ last_popped_stack_elem.some
    /\ ObjEq(last_popped_stack_elem.value, TRUE_OBJ)

(***************************************************************************)
(* Lets and identifiers                                                    *)
(***************************************************************************)

LetEntries ==
    { i \in DOMAIN compile_log : compile_log[i].node = "LetStatement" }

IdentifierEntries ==
    { i \in DOMAIN compile_log : compile_log[i].node = "Identifier" }

\* The instruction that sets or gets the symbol: the global opcode with a
\* two-byte index, or the local opcode with a one-byte index.
SymbolInstruction(symbol, global_op, local_op) ==
    IF symbol.scope = "Global"
    THEN << OpByte(global_op) >> \o U16Bytes(symbol.index)
    ELSE << OpByte(local_op) >> \o U8Byte(symbol.index)

\* A let appends, to the instructions of its value, the set instruction of
\* the symbol that define returns for its name.
LetEmitsSet(e) ==
    e.out = e.mid \o SymbolInstruction(DefinedSymbol(e.symbols, e.exp.name),
                                       "OpSetGlobal", "OpSetLocal")

\* The value of a let is compiled before its name is defined: a value that
\* is an identifier is the entry before the let's, resolved in the symbols
\* the define of the let starts from, and its code is what the let's set
\* instruction follows.
LetValueFirst(i) ==
    compile_log[i].exp.value.kind = "Identifier"
    => /\ i - 1 \in IdentifierEntries
       /\ compile_log[i - 1].exp = compile_log[i].exp.value
       /\ compile_log[i - 1].symbols = compile_log[i].symbols
       /\ compile_log[i - 1].out = compile_log[i].mid

\* An identifier appends the get instruction of the symbol it resolves to.
IdentifierEmitsGet(e) ==
    /\ resolve(e.symbols, e.exp.name).some
    /\ e.out = e.mid \o SymbolInstruction(
                             resolve(e.symbols, e.exp.name).symbol,
                             "OpGetGlobal", "OpGetLocal")

\* C13: a LetStatement compiles its value first, then defines the name and
\* emits OpSetGlobal(index) for a global symbol and OpSetLocal(index) for a
\* local one; an Identifier emits OpGetGlobal(index) or OpGetLocal(index)
\* by the scope of the symbol it resolves to, with that symbol's index.
C13_LetAndIdentifierFollowSymbol ==
    /\ \A i \in LetEntries : LetEmitsSet(compile_log[i]) /\ LetValueFirst(i)
    /\ \A i \in IdentifierEntries : IdentifierEmitsGet(compile_log[i])

\* A function that binds a local and reads it has been compiled.
C13_Witness ==
    /\ result = "compiled"
    /\ \E i \in LetEntries :
          /\ compile_log[i].scope_index = 1
          /\ i + 1 \in IdentifierEntries
          /\ compile_log[i + 1].exp.name = compile_log[i].exp.name
          /\ compile_log[i + 1].scope_index = 1

(***************************************************************************)
(* Calls                                                                   *)
(***************************************************************************)

\* The calls of a function literal: all their parts compile.
LiteralCalls == { e \in Calls : e.function.kind = "FunctionLiteral" }

\* The instructions compiled for the statement `e;` end with OpCall, the
\* one-byte count of the arguments of e, and the OpPop of the statement.
CallCompiled(e) ==
    /\ Len(pending.instructions) >= 3
    /\ SubSeq(pending.instructions, Len(pending.instructions) - 2,
              Len(pending.instructions))
           = << OpByte("OpCall"), Len(e.arguments), OpByte("OpPop") >>

\* C14: a CallExpression compiles the function, then the arguments left to
\* right, then OpCall with the one-byte count of the arguments: compiling
\* it succeeds, for no argument as for some, and the OpCall takes 2 bytes.
C14_CallCompilesToOpCallWithCount ==
    \A e \in LiteralCalls :
       (session = "repl" /\ input = << ExpressionStatement(e) >>)
       => result # "panic" /\ CallCompiled(e)

(***************************************************************************)
(* The opcode table, the encoder and the decoder                           *)
(***************************************************************************)

\* The operand widths of the opcode table as it is documented.
TableWidth(op) ==
    CASE op \in { "OpConstant", "OpJump", "OpJumpNotTruthy", "OpSetGlobal",
                  "OpGetGlobal", "OpArray", "OpHash" } -> << 2 >>
      [] op \in { "OpCall", "OpGetLocal", "OpSetLocal" } -> << 1 >>
      [] OTHER -> << >>

\* As many operands as widths, each within its width.
Fits(operands, widths) ==
    /\ Len(operands) = Len(widths)
    /\ \A i \in DOMAIN operands :
          operands[i] < (IF widths[i] = 2 THEN 65536 ELSE 256)

\* The operands in order, each big-endian in its width.
RECURSIVE BigEndian(_, _)
BigEndian(operands, widths) ==
    IF operands = << >> THEN << >>
    ELSE (IF Head(widths) = 2
          THEN << Head(operands) \div 256, Head(operands) % 256 >>
          ELSE << Head(operands) >>)
         \o BigEndian(Tail(operands), Tail(widths))

\* C15: lookup gives every opcode the operand widths of the opcode table:
\* [2] for OpConstant, OpJump, OpJumpNotTruthy, OpSetGlobal, OpGetGlobal,
\* OpArray and OpHash, [1] for OpCall, OpGetLocal and OpSetLocal, [] for
\* every other opcode.
C15_LookupGivesTableWidths ==
    code_call.fn = "lookup" => code_call.out = TableWidth(code_call.op)

\* C16: for every opcode and every tuple of as many operands as lookup
\* gives the opcode widths, each within its width, the instruction is
\* encoded and read_operands of what follows its opcode byte, with the
\* widths of lookup, returns the operands and the sum of the widths.
C16_EncoderRoundTrip ==
    Fits(code_call.operands, OperandWidth(code_call.op))
    => /\ code_call.fn = "make_with_operands" => ~code_call.panic
       /\ code_call.fn = "read_operands"
             => /\ ~code_call.panic
                /\ code_call.out = << code_call.operands,
                                      SumSeq(OperandWidth(code_call.op)) >>

\* A two-byte operand with two different bytes has been encoded and read
\* back.
C16_Witness ==
    /\ code_call.fn = "read_operands"
    /\ code_call.op = "OpConstant"
    /\ code_call.operands = << 256 >>
    /\ code_call.ins = << 1, 0 >>
    /\ code_call.out = << << 256 >>, 2 >>

\* C17: make_with_operands returns the opcode byte followed by each operand
\* in order, big-endian in the width lookup gives it (two bytes, high then
\* low, or one unsigned byte), which makes 1 plus the sum of the widths
\* bytes; make of an opcode without operands returns the opcode byte alone.
C17_MakeEncodesBigEndian ==
    /\ (code_call.fn = "make_with_operands"
         /\ Fits(code_call.operands, OperandWidth(code_call.op)))
        => /\ ~code_call.panic
           /\ code_call.out =
                  << OpByte(code_call.op) >>
                      \o BigEndian(code_call.operands,
                                   OperandWidth(code_call.op))
           /\ Len(code_call.out) = 1 + SumSeq(OperandWidth(code_call.op))
    /\ (code_call.fn = "make" /\ OperandWidth(code_call.op) = << >>)
        => ~code_call.panic /\ code_call.out = << OpByte(code_call.op) >>

\* OpGetLocal 255 has been encoded in two bytes.
C17_Witness ==
    /\ code_call.fn = "make_with_operands"
    /\ code_call.op = "OpGetLocal"
    /\ code_call.operands = << 255 >>
    /\ code_call.out = << OpByte("OpGetLocal"), 255 >>

\* C18: encoding with a number of operands that is not the number of
\* widths lookup gives the opcode fails instead of returning an
\* instruction: with too few operands (make of an opcode that takes
\* operands included) as with too many.
C18_WrongOperandCountFailsLoudly ==
    /\ (code_call.fn = "make_with_operands"
         /\ Len(code_call.operands) # Len(OperandWidth(code_call.op)))
        => code_call.panic
    /\ (code_call.fn = "make" /\ OperandWidth(code_call.op) # << >>)
        => code_call.panic

(***************************************************************************)
(* Symbol tables                                                           *)
(***************************************************************************)

\* A step of define(name): the innermost table alone changes, it holds the
\* returned symbol for name and what it held for the other names, and its
\* num_definitions has grown by one; the symbol has the name, the scope of
\* the table (Global for the outermost) and the num_definitions of before.
DefineStep ==
    LET depth == Len(symbol_table_stack)
        before == symbol_table_stack[depth]
        after == symbol_table_stack'[depth]
        symbol == symbol_call'.symbol
    IN  /\ Len(symbol_table_stack') = depth
        /\ \A i \in 1..(depth - 1) :
              symbol_table_stack'[i] = symbol_table_stack[i]
        /\ DOMAIN after.store = DOMAIN before.store \cup { symbol_call'.name }
        /\ after.store[symbol_call'.name] = symbol
        /\ \A n \in DOMAIN before.store \ { symbol_call'.name } :
              after.store[n] = before.store[n]
        /\ after.num_definitions = before.num_definitions + 1
        /\ symbol.name = symbol_call'.name
        /\ symbol.scope = (IF depth = 1 THEN "Global" ELSE "Local")
        /\ symbol.index = before.num_definitions

\* A new scope starts with no definition.
PushStep ==
    /\ Len(symbol_table_stack') = Len(symbol_table_stack) + 1
    /\ StackLast(symbol_table_stack').num_definitions = 0
    /\ DOMAIN StackLast(symbol_table_stack').store = { }

\* C19: define(name) inserts into the innermost scope only and returns a
\* symbol that is Global iff that scope is the outermost one, else Local,
\* with the num_definitions of that scope before the call as index; the
\* num_definitions of that scope grows by 1 and no other scope changes, so
\* that the defines of one scope are numbered 0, 1, 2, ... and each new
\* scope starts at 0.
C19_DefineNumbersInnermostScope ==
    [][/\ symbol_call'.fn = "define" => DefineStep
       /\ symbol_call'.fn = "push" => PushStep]_vars

\* A second name has been defined in a scope enclosed in the global one.
C19_Witness ==
    /\ symbol_call.fn = "define"
    /\ Len(symbol_table_stack) >= 2
    /\ symbol_call.symbol.scope = "Local"
    /\ symbol_call.symbol.index = 1
    /\ StackLast(symbol_table_stack).num_definitions = 2

\* The scopes that hold name, by their depth (1 is the outermost).
ScopesHolding(name) ==
    { i \in DOMAIN symbol_table_stack : name \in DOMAIN symbol_table_stack[i].store }

Innermost(depths) == CHOOSE i \in depths : \A j \in depths : j <= i

\* A step of resolve(name): None when no scope holds the name, else the
\* symbol as the innermost scope that holds the name holds it; the scopes
\* are as before.
ResolveStep ==
    /\ symbol_table_stack' = symbol_table_stack
    /\ symbol_call'.some = (ScopesHolding(symbol_call'.name) # { })
    /\ symbol_call'.some
         => symbol_call'.symbol =
                symbol_table_stack[Innermost(ScopesHolding(symbol_call'.name))]
                    .store[symbol_call'.name]

\* C20: resolve(name) searches the innermost scope first and returns the
\* first match: the innermost definition of a name defined in several
\* scopes, the symbol of the enclosing scope (with its scope and index) for
\* a name defined only there, None for a name defined nowhere; it changes
\* no scope.
C20_ResolveFindsInnermost ==
    [][symbol_call'.fn = "resolve" => ResolveStep]_vars

\* A name defined in the global scope and in the scope enclosed in it, but
\* not in the innermost of three scopes, has been resolved from there.
C20_Witness ==
    /\ symbol_call.fn = "resolve"
    /\ Len(symbol_table_stack) = 3
    /\ ScopesHolding(symbol_call.name) = { 1, 2 }
    /\ symbol_call.some
    /\ symbol_call.symbol = symbol_table_stack[2].store[symbol_call.name]
    /\ symbol_call.symbol # symbol_table_stack[1].store[symbol_call.name]

\* A step of define(name) on a scope that holds the name already: the name
\* is bound to the returned symbol, whose index is the num_definitions of
\* before, above the index the name had, and the scope holds the names it
\* held.
RebindStep ==
    LET depth == Len(symbol_table_stack)
        before == symbol_table_stack[depth]
        after == symbol_table_stack'[depth]
        name == symbol_call'.name
    IN  name \in DOMAIN before.store
        => /\ symbol_call'.symbol.index = before.num_definitions
           /\ symbol_call'.symbol.index > before.store[name].index
           /\ after.store[name] = symbol_call'.symbol
           /\ DOMAIN after.store = DOMAIN before.store

\* No define lowers the num_definitions of a scope.
DefinitionsGrow ==
    \A i \in DOMAIN symbol_table_stack :
       i \in DOMAIN symbol_table_stack'
       /\ symbol_table_stack'[i].num_definitions
              >= symbol_table_stack[i].num_definitions

\* resolve of the name just defined returns the symbol define returned.
ResolveAfterDefine ==
    (/\ symbol_call.fn = "define" /\ symbol_call'.fn = "resolve"
     /\ symbol_call'.name = symbol_call.name)
    => symbol_call'.some /\ symbol_call'.symbol = symbol_call.symbol

\* C21: defining a name its scope holds already re-binds it: resolve then
\* returns the symbol of the latest define, whose index is the
\* num_definitions of the scope just before that define, not the old index;
\* the scope holds one symbol for the name, and num_definitions never
\* decreases under defines.
C21_RedefinitionRebinds ==
    [][/\ symbol_call'.fn = "define" => RebindStep /\ DefinitionsGrow
       /\ ResolveAfterDefine]_vars

\* A name defined twice in a scope enclosed in the global one has been
\* resolved to its second symbol.
C21_Witness ==
    /\ symbol_call.fn = "resolve"
    /\ Len(symbol_table_stack) = 2
    /\ DOMAIN StackLast(symbol_table_stack).store = { symbol_call.name }
    /\ StackLast(symbol_table_stack).num_definitions = 2
    /\ symbol_call.some
    /\ symbol_call.symbol.index = 1

(***************************************************************************)
(* Compilation scopes                                                      *)
(***************************************************************************)

\* The depths of a compiler that has not crashed.
ScopeDepths ==
    IsOk(compiler)
    => /\ Len(compiler.symbol_table_stack) >= 1
       /\ Len(compiler.scopes) >= 1
       /\ compiler.scope_index = Len(compiler.scopes) - 1
       /\ Len(compiler.symbol_table_stack) = Len(compiler.scopes)

\* leave_scope while the symbol stack holds one table fails and leaves
\* that table.
LastPopFails ==
    (/\ scope_call' = "leave_scope"
     /\ Len(compiler.symbol_table_stack) = 1)
    => /\ compiler'.status = "panic"
       /\ compiler'.symbol_table_stack = compiler.symbol_table_stack

UnknownOperators ==
    { PrefixExpression("+", x) : x \in { Int1, BooleanLiteral(TRUE) } }
        \cup { InfixExpression("&&", Int1, Int2) }

\* Expressions compile has to refuse as the first input: an unknown
\* operator, an identifier no scope holds, a variant without an arm.
Refused == UnknownOperators \cup { Identifier("a") } \cup Unsupported

\* The first input was the statement `e;`.
FirstInputWas(e) ==
    session = "repl" /\ inputs = 1 /\ input = << ExpressionStatement(e) >>

\* An unknown prefix or infix operator makes compile return Err.
UnknownOperatorIsErr ==
    \A e \in UnknownOperators : FirstInputWas(e) => result = "compile_err"

\* C23: compile returns Err(message), rather than crashing or returning Ok,
\* when the AST holds an unknown prefix or infix operator, an identifier
\* that does not resolve in the symbol stack, or an unsupported variant.
C23_CompileReturnsErr ==
    \A e \in Refused : FirstInputWas(e) => result = "compile_err"

(***************************************************************************)
(* Arithmetic                                                              *)
(***************************************************************************)

ArithmeticOpcodes == { "OpAdd", "OpSub", "OpMul", "OpDiv" }

Abs(n) == IF n < 0 THEN -n ELSE n

\* The quotient of a by b # 0 truncated toward zero: the integer q of
\* largest magnitude with |q| * |b| <= |a|, negative when the signs differ.
Truncated(a, b) ==
    CHOOSE q \in -Abs(a)..Abs(a) :
       /\ Abs(q) * Abs(b) <= Abs(a)
       /\ Abs(a) < (Abs(q) + 1) * Abs(b)
       /\ q > 0 => (a < 0) = (b < 0)
       /\ q < 0 => (a < 0) # (b < 0)

\* left (op) right has a value: two integers, the divisor of OpDiv not 0,
\* or two strings under OpAdd.
HasResult(op, left, right) ==
    \/ left.t = "Integer" /\ right.t = "Integer"
        /\ (op = "OpDiv" => right.v # 0)
    \/ left.t = "String" /\ right.t = "String" /\ op = "OpAdd"

ArithmeticResult(op, left, right) ==
    IF left.t = "String" THEN String(left.v \o right.v)
    ELSE CASE op = "OpAdd" -> Integer(left.v + right.v)
           [] op = "OpSub" -> Integer(left.v - right.v)
           [] op = "OpMul" -> Integer(left.v * right.v)
           [] OTHER -> Integer(Truncated(left.v, right.v))

\* A step of an arithmetic opcode on operands that have a result: the top
\* value was the right operand, the one under it the left one; both are
\* gone, the result is on top, the values below are as they were.
ArithmeticStep ==
    (/\ Fetches(ArithmeticOpcodes)
     /\ sp >= 2 /\ Len(stack) >= sp
     /\ HasResult(OpFrom(FetchedByte), stack[sp - 1], stack[sp]))
    => /\ phase' = "run"
       /\ sp' = sp - 1
       /\ Len(stack') = sp'
       /\ ObjEq(stack'[sp'],
                ArithmeticResult(OpFrom(FetchedByte), stack[sp - 1],
                                 stack[sp]))
       /\ \A i \in 1..(sp - 2) : ObjEq(stack'[i], stack[i])

EndsInErr(n, message) ==
    /\ result' = "run_err"
    /\ phase' = "idle"
    /\ err' = message
    /\ sp' = sp - n
    /\ Len(stack') = sp'
    /\ \A i \in 1..(sp - n) : ObjEq(stack'[i], stack[i])

BothAre(type, left, right) == left.t = type /\ right.t = type

\* An arithmetic opcode on operands that are not two integers nor two
\* strings, or OpSub, OpMul, OpDiv on two strings.
ArithmeticErrStep ==
    (/\ Fetches(ArithmeticOpcodes)
     /\ sp >= 2 /\ Len(stack) >= sp
     /\ ~BothAre("Integer", stack[sp - 1], stack[sp]))
    => IF BothAre("String", stack[sp - 1], stack[sp])
       THEN OpFrom(FetchedByte) # "OpAdd"
            => EndsInErr(2, "unknown string operator")
       ELSE EndsInErr(2, "unsupported object")

\* OpMinus on a value that is no integer.
MinusErrStep ==
    (/\ Fetches({ "OpMinus" })
     /\ sp >= 1 /\ Len(stack) >= sp
     /\ stack[sp].t # "Integer")
    => EndsInErr(1, "unsupported type for negation")

\* OpGreaterThan on operands that are not two integers.
GreaterThanErrStep ==
    (/\ Fetches({ "OpGreaterThan" })
     /\ sp >= 2 /\ Len(stack) >= sp
     /\ ~BothAre("Integer", stack[sp - 1], stack[sp]))
    => EndsInErr(2, "unknown operator")

\* After an Err the VM is not in its loop.
ErrStopsRun == result = "run_err" => phase = "idle" /\ ~Running

\* C25: run returns an error and pushes no result when a binary arithmetic
\* opcode gets operands that are not both integers or both strings, when
\* OpSub, OpMul or OpDiv gets two strings, when OpMinus gets a non-integer
\* and when OpGreaterThan gets an operand that is not an integer; after the
\* error no further instruction is executed.
C25_TypeErrorsEndRun ==
    /\ [][ArithmeticErrStep /\ MinusErrStep /\ GreaterThanErrStep]_vars
    /\ []ErrStopsRun

\* -true has ended the run with an error and left nothing on the stack.
C25_Witness ==
    /\ session = "repl"
    /\ input = << ExpressionStatement(
                      PrefixExpression("-", BooleanLiteral(TRUE))) >>
    /\ result = "run_err"
    /\ err = "unsupported type for negation"
    /\ sp = 0

(***************************************************************************)
(* Truthiness                                                              *)
(***************************************************************************)

\* A value is truthy when it is neither Null nor Boolean(false).
Truthy(o) == ~(o.t = "Null") /\ ~(o.t = "Boolean" /\ o.v = FALSE)

\* A step of OpJumpNotTruthy(pos), pos > 0: the condition is popped and the
\* next instruction is the one at pos when it is not truthy, the one after
\* the operand when it is.
JumpNotTruthyStep ==
    (/\ Fetches({ "OpJumpNotTruthy" })
     /\ CanRead16(MIns(Machine), CurrentIp + 1)
     /\ ReadUint16(MIns(Machine), CurrentIp + 1) > 0
     /\ sp >= 1 /\ Len(stack) >= sp)
    => /\ phase' = "run"
       /\ sp' = sp - 1
       /\ frames'[frame_index'].ip =
              (IF Truthy(stack[sp]) THEN CurrentIp + 3
               ELSE ReadUint16(MIns(Machine), CurrentIp + 1))

\* A step of OpBang: TRUE replaces an operand that is not truthy, FALSE one
\* that is.
BangStep ==
    (Fetches({ "OpBang" }) /\ sp >= 1 /\ Len(stack) >= sp)
    => /\ phase' = "run"
       /\ sp' = sp
       /\ ObjEq(stack'[sp], Boolean(~Truthy(stack[sp])))

\* The operands of `!` that evaluate to a truthy value.
TruthyOperands == BangOperands \ { BooleanLiteral(FALSE), NullIf }

\* When the statement `!!x;` has run, the value it left is the truthiness
\* of x as a Boolean.
DoubleBang ==
    \A x \in BangOperands :
       (/\ FirstInputWas(PrefixExpression("!", PrefixExpression("!", x)))
        /\ result = "ok")
       => /\ last_popped_stack_elem.some
          /\ ObjEq(last_popped_stack_elem.value,
                   Boolean(x \in TruthyOperands))

\* C26: a value is truthy iff it is neither Null nor Boolean(false), and
\* the two users of truthiness agree: OpJumpNotTruthy jumps exactly when
\* the popped condition is not truthy, OpBang pushes TRUE exactly when its
\* popped operand is not truthy and FALSE otherwise, so OpBang applied
\* twice yields the truthiness of a value as a Boolean.
C26_TruthinessAgrees ==
    /\ [][JumpNotTruthyStep /\ BangStep]_vars
    /\ []DoubleBang

\* !!(if (false) { 1 }) has run and left FALSE.
C26_Witness ==
    /\ FirstInputWas(PrefixExpression("!", PrefixExpression("!", NullIf)))
    /\ result = "ok"
    /\ ObjEq(last_popped_stack_elem.value, FALSE_OBJ)

(***************************************************************************)
(* Arrays, hashes and the index operator                                   *)
(***************************************************************************)

\* The 2-byte operand of the instruction at ip.
Operand16 == ReadUint16(MIns(Machine), CurrentIp + 1)

\* An instruction with a 2-byte operand N is fetched and the stack holds N
\* values at least.
FetchesOnTop(op) ==
    /\ Fetches({ op })
    /\ CanRead16(MIns(Machine), CurrentIp + 1)
    /\ Operand16 <= sp /\ sp = Len(stack)

\* The values under the n topmost are as they were.
BelowUntouched(n) == \A i \in 1..(sp - n) : ObjEq(stack'[i], stack[i])

\* A step of OpArray(N): the N topmost values are gone, one array is on
\* top and holds them, the lowest stack index first.
ArrayStep ==
    FetchesOnTop("OpArray")
    => /\ phase' = "run"
       /\ sp' = sp - Operand16 + 1
       /\ Len(stack') = sp'
       /\ stack'[sp'].t = "Array"
       /\ Len(stack'[sp'].v) = Operand16
       /\ \A i \in 1..Operand16 :
             ObjEq(stack'[sp'].v[i], stack[sp - Operand16 + i])
       /\ BelowUntouched(Operand16)

\* OpIndex is fetched with two values at least on the stack.
FetchesIndex == Fetches({ "OpIndex" }) /\ sp >= 2 /\ Len(stack) >= sp

\* A step of OpIndex on an array and an integer i: element i is pushed when
\* 0 <= i < length, Null otherwise.
ArrayIndexStep ==
    (/\ FetchesIndex
     /\ stack[sp - 1].t = "Array" /\ stack[sp].t = "Integer")
    => /\ phase' = "run"
       /\ sp' = sp - 1
       /\ Len(stack') = sp'
       /\ IF 0 <= stack[sp].v /\ stack[sp].v < Len(stack[sp - 1].v)
          THEN ObjEq(stack'[sp'], stack[sp - 1].v[stack[sp].v + 1])
          ELSE ObjEq(stack'[sp'], NULL)
       /\ BelowUntouched(2)

\* C27: OpArray(N) removes exactly the top N stack values and pushes one
\* array holding them in push order, leaving the values below untouched;
\* OpIndex on an array with integer index i pushes element i when
\* 0 <= i < length and Null when i is negative or >= length.
C27_ArraysBuildAndIndex == [][ArrayStep /\ ArrayIndexStep]_vars

\* [2, [1, 2][1]] has been built: the inner array above the value 2, its
\* element 1, then the outer array.
C27_Witness ==
    /\ FirstInputWas(
           ArrayLiteral(<< Int2, IndexExpression(Array12, Int1) >>))
    /\ result = "ok"
    /\ last_popped_stack_elem.value.t = "Array"
    /\ Len(last_popped_stack_elem.value.v) = 2
    /\ ObjEq(last_popped_stack_elem.value.v[2], Integer(2))

\* The variants a hash key is derived from.
KeyVariants == { "Integer", "Boolean", "String" }

\* The key and the value of the j-th pair under an OpHash(2N).
KeyOf(j) == stack[sp - Operand16 + 2 * j - 1]

ValueOf(j) == stack[sp - Operand16 + 2 * j]

PairIndexes == 1..(Operand16 \div 2)

\* The j-th pair is the last one written with its key.
LastWritten(j) ==
    \A j2 \in PairIndexes : j2 > j => ~ObjEq(KeyOf(j2), KeyOf(j))

\* A step of OpHash(2N) over keys that are all of a key variant: the 2N
\* topmost values are gone, one hash is on top; it holds one pair per key,
\* the last pair written with it.
HashStep ==
    (/\ FetchesOnTop("OpHash")
     /\ Operand16 % 2 = 0
     /\ \A j \in PairIndexes : KeyOf(j).t \in KeyVariants)
    => /\ phase' = "run"
       /\ sp' = sp - Operand16 + 1
       /\ Len(stack') = sp'
       /\ stack'[sp'].t = "Hash"
       /\ Cardinality(DOMAIN stack'[sp'].v)
              = Cardinality({ j \in PairIndexes : LastWritten(j) })
       /\ \A j \in PairIndexes :
             LastWritten(j)
             => \E k \in DOMAIN stack'[sp'].v :
                   /\ ObjEq(stack'[sp'].v[k].key, KeyOf(j))
                   /\ ObjEq(stack'[sp'].v[k].value, ValueOf(j))
       /\ BelowUntouched(Operand16)

\* A step of OpHash(2N) over a key of another variant ends the run with an
\* error.
HashKeyErrStep ==
    (/\ FetchesOnTop("OpHash")
     /\ Operand16 % 2 = 0
     /\ \E j \in PairIndexes : KeyOf(j).t \notin KeyVariants)
    => result' = "run_err" /\ phase' = "idle"

\* A step of OpIndex on a hash: the value stored for the key is pushed,
\* Null for a key the hash does not hold; an index of no key variant ends
\* the run with an error.
HashIndexStep ==
    (FetchesIndex /\ stack[sp - 1].t = "Hash")
    => IF stack[sp].t \in KeyVariants
       THEN /\ phase' = "run"
            /\ sp' = sp - 1
            /\ Len(stack') = sp'
            /\ \A k \in DOMAIN stack[sp - 1].v :
                  ObjEq(stack[sp - 1].v[k].key, stack[sp])
                  => ObjEq(stack'[sp'], stack[sp - 1].v[k].value)
            /\ (\A k \in DOMAIN stack[sp - 1].v :
                   ~ObjEq(stack[sp - 1].v[k].key, stack[sp]))
               => ObjEq(stack'[sp'], NULL)
            /\ BelowUntouched(2)
       ELSE result' = "run_err" /\ phase' = "idle"

\* A step of OpIndex on what is neither an array with an integer index nor
\* a hash ends the run with an error.
OtherIndexStep ==
    (/\ FetchesIndex
     /\ stack[sp - 1].t # "Hash"
     /\ ~(stack[sp - 1].t = "Array" /\ stack[sp].t = "Integer"))
    => EndsInErr(2, "index operator not supported")

\* C28: OpHash(2N) removes exactly the top 2N stack values as N key/value
\* pairs in emission order and pushes one hash in which a duplicated key
\* keeps the last pair written; OpIndex on a hash pushes the stored value
\* for a present key and Null for a missing one; a key that is not an
\* Integer, Boolean or String, when building a hash or indexing one, makes
\* run return an error, as does indexing a value that is neither an array
\* with an integer index nor a hash.
C28_HashesBuildAndIndex ==
    [][/\ HashStep /\ HashKeyErrStep
       /\ HashIndexStep /\ OtherIndexStep]_vars

\* {1: 1, 1: 2}[1] has run and left 2.
C28_Witness ==
    /\ FirstInputWas(IndexExpression(HashTwice, Int1))
    /\ result = "ok"
    /\ ObjEq(last_popped_stack_elem.value, Integer(2))

(***************************************************************************)
(* Calls of what is no function                                            *)
(***************************************************************************)

\* The step returns the error "calling non-function" and the frames are as
\* they were.
RefusesCall ==
    /\ result' = "run_err"
    /\ err' = "calling non-function"
    /\ frame_index' = frame_index
    /\ frames' = frames

\* An OpCall whose callee position holds no CompiledFunction.
CallsNonFunction ==
    /\ Fetches({ "OpCall" })
    /\ CalleeSlot \in 1..Len(stack)
    /\ stack[CalleeSlot].t # "CompiledFunction"

\* An OpCall without arguments of what is no function is refused.
NonFunctionOnTopIsRefused ==
    [][(CallsNonFunction /\ CallArgc(Machine) = 0) => RefusesCall]_vars

\* C29: if the value in the callee position of an OpCall,
\* stack[sp - 1 - argc], is not a CompiledFunction, run returns the error
\* "calling non-function", pushes no frame and leaves the frame stack
\* unchanged.
C29_NonFunctionCallIsRefused == [][CallsNonFunction => RefusesCall]_vars

(***************************************************************************)
(* The frame stack                                                         *)
(***************************************************************************)

\* The VM made of compiled code starts with the main frame at ip 0.
StartsWithMainFrame ==
    (session = "repl" /\ phase = "compiled" /\ phase' = "run")
    => frame_index' = 1 /\ Len(frames') = 1 /\ frames'[1].ip = 0

\* After a step of the run of compiled code frame_index is the number of
\* frames, the main frame is among them, and the frames are one more than
\* the calls that have not returned.
FramesCounted ==
    (session = "repl" /\ phase = "run")
    => /\ frame_index' = Len(frames')
       /\ frame_index' >= 1
       /\ frame_index' = 1 + Len(call_log')

\* A step that is no return in the main frame leaves the main frame.
MainFrameStaysButForReturn ==
    [][(/\ session = "repl" /\ phase = "run"
        /\ ~(frame_index = 1 /\ Fetches({ "OpReturnValue", "OpReturn" })))
       => frame_index' = Len(frames') /\ frame_index' >= 1]_vars

\* C30: throughout run, for every program the compiler accepts,
\* frame_index equals the number of frames on the frame stack and is at
\* least 1: the main frame is pushed at construction with ip 0, each OpCall
\* adds one frame, each OpReturnValue or OpReturn removes one, and the main
\* frame is never removed, so the frame count is always 1 plus the number
\* of calls that have not yet returned.
C30_MainFrameStays == [][StartsWithMainFrame /\ FramesCounted]_vars

(***************************************************************************)
(* The limit of the operand stack                                          *)
(***************************************************************************)

\* An instruction that only pushes is fetched, with what it needs to get
\* as far as its push.
FetchesPush ==
    \/ Fetches({ "OpTrue", "OpFalse", "OpNull" })
    \/ /\ Fetches({ "OpConstant" })
       /\ CanRead16(MIns(Machine), CurrentIp + 1)
       /\ Operand16 < Len(constants)

\* A push at sp >= STACK_SIZE: run returns "stack overflow", the stack and
\* sp are as they were, the VM is out of its loop.
OverflowStep ==
    (FetchesPush /\ sp >= STACK_SIZE)
    => /\ result' = "run_err"
       /\ err' = "stack overflow"
       /\ phase' = "idle"
       /\ stack' = stack
       /\ sp' = sp

\* C31: a push attempted when sp >= STACK_SIZE (2048) returns the error
\* "stack overflow" and changes neither the stack nor sp, so sp never
\* exceeds 2048 in any reachable state and run stops with that error.
C31_PushStopsAtStackSize ==
    /\ [][OverflowStep]_vars
    /\ [](sp <= STACK_SIZE /\ Len(stack) <= STACK_SIZE)

\* The loop has filled the stack and its next push was refused.
C31_Witness ==
    /\ result = "run_err"
    /\ err = "stack overflow"
    /\ sp = STACK_SIZE
    /\ Len(stack) = STACK_SIZE

(***************************************************************************)
(* Termination of run                                                      *)
(***************************************************************************)

\* A VM made of compiled bytecode is in its run.
CompiledRun == session = "repl" /\ phase = "run"

\* run has returned Ok(()) or Err(message).
RunHalted == phase = "idle" /\ result \in { "ok", "run_err" }

\* run has returned Ok(()) with the main frame alone on the frame stack and
\* its ip at the end of its instructions.
MainFrameAtEnd ==
    /\ frame_index = 1
    /\ Len(frames) = 1
    /\ frames[1].ip >= Len(frames[1].instructions)

\* Under RunSpec a run of compiled bytecode comes to an end of some kind: it
\* returns or it panics.
CompiledRunEnds == CompiledRun ~> (phase \in { "idle", "crashed" })

\* A run of compiled bytecode that returns Ok(()) returns with the main
\* frame at the end of its instructions, no callee frame being active.
OkIsMainFrameAtEnd ==
    [][(CompiledRun /\ result' = "ok") => MainFrameAtEnd]_vars

\* C32: every run of bytecode produced by the compiler eventually halts,
\* and in one of two ways: the main frame's ip reaches the end of its
\* instructions and run returns Ok, or run returns an error value; never
\* with a callee frame active at the end of its instructions, never by a
\* crash.
C32_CompiledRunHalts ==
    /\ CompiledRun ~> RunHalted
    /\ OkIsMainFrameAtEnd

(***************************************************************************)
(* The result of a run                                                     *)
(***************************************************************************)

\* What Value gives for an expression it does not evaluate.
NoValue == [t |-> "NoValue", v |-> 0]

HasValue(o) == o.t # "NoValue"

\* The value of `operator right`, as the tests of the VM expect it.
PrefixValue(operator, right) ==
    CASE ~HasValue(right) -> NoValue
      [] operator = "!" -> Boolean(~Truthy(right))
      [] operator = "-" /\ right.t = "Integer" -> Integer(0 - right.v)
      [] OTHER -> NoValue

\* The value of `left operator right` for two integers, two booleans or two
\* strings.
InfixValue(operator, left, right) ==
    CASE ~HasValue(left) \/ ~HasValue(right) -> NoValue
      [] left.t = "Integer" /\ right.t = "Integer" ->
            CASE operator = "+" -> Integer(left.v + right.v)
              [] operator = "-" -> Integer(left.v - right.v)
              [] operator = "*" -> Integer(left.v * right.v)
              [] operator = "/" /\ right.v # 0 ->
                    Integer(Truncated(left.v, right.v))
              [] operator = ">" -> Boolean(left.v > right.v)
              [] operator = "<" -> Boolean(left.v < right.v)
              [] operator = "==" -> Boolean(left.v = right.v)
              [] operator = "!=" -> Boolean(left.v # right.v)
              [] OTHER -> NoValue
      [] left.t = "Boolean" /\ right.t = "Boolean" ->
            CASE operator = "==" -> Boolean(left.v = right.v)
              [] operator = "!=" -> Boolean(left.v # right.v)
              [] OTHER -> NoValue
      [] left.t = "String" /\ right.t = "String" /\ operator = "+" ->
            String(left.v \o right.v)
      [] OTHER -> NoValue

\* The value of left[index] for an array and an integer.
IndexValue(left, index) ==
    CASE ~HasValue(left) \/ ~HasValue(index) -> NoValue
      [] left.t = "Array" /\ index.t = "Integer" ->
            IF index.v >= 0 /\ index.v < Len(left.v)
            THEN left.v[index.v + 1] ELSE NULL
      [] OTHER -> NoValue

\* The value bound to a global name when the run has ended.
GlobalValue(name) ==
    LET store == symbol_table_stack[1].store
    IN  IF name \in DOMAIN store /\ store[name].index < Len(globals)
        THEN globals[store[name].index + 1]
        ELSE NoValue

\* A block that binds nothing and returns nothing: expression statements
\* only, one at least.
PlainBlock(statements) ==
    /\ statements # << >>
    /\ \A i \in DOMAIN statements :
          statements[i].kind = "ExpressionStatement"

RECURSIVE Value(_)

\* The value of an arm of an if: the value of its last statement.
ArmValue(statements) ==
    IF PlainBlock(statements)
    THEN Value(statements[Len(statements)].expression)
    ELSE NoValue

\* The value of the if once its condition has the value c.
IfValue(e, c) ==
    CASE ~HasValue(c) -> NoValue
      [] Truthy(c) -> ArmValue(e.consequence)
      [] e.alternative.some -> ArmValue(e.alternative.statements)
      [] OTHER -> NULL

\* The values of the elements of an array literal.
ElementValues(elements) == [i \in DOMAIN elements |-> Value(elements[i])]

\* The array of the values, when each element has one.
ArrayValue(values) ==
    IF \A i \in DOMAIN values : HasValue(values[i])
    THEN Array(values) ELSE NoValue

\* The value of a Monkey expression without functions, calls and hashes,
\* as the tests of the VM (run_vm_tests) expect it; NoValue for the others
\* and for an expression whose evaluation is an error.
Value(e) ==
    CASE e.kind = "IntegerLiteral" -> Integer(e.value)
      [] e.kind = "Boolean" -> Boolean(e.bool)
      [] e.kind = "StringLiteral" -> String(e.chars)
      [] e.kind = "Identifier" -> GlobalValue(e.name)
      [] e.kind = "PrefixExpression" ->
            PrefixValue(e.operator, Value(e.right))
      [] e.kind = "InfixExpression" ->
            InfixValue(e.operator, Value(e.left), Value(e.right))
      [] e.kind = "IfExpression" -> IfValue(e, Value(e.condition))
      [] e.kind = "ArrayLiteral" -> ArrayValue(ElementValues(e.elements))
      [] e.kind = "IndexExpression" ->
            IndexValue(Value(e.left), Value(e.index))
      [] OTHER -> NoValue

\* run has returned Ok(()) on a compiled program whose last statement is an
\* expression statement.
RanToExpression ==
    /\ session = "repl"
    /\ phase = "idle"
    /\ result = "ok"
    /\ input # << >>
    /\ input[Len(input)].kind = "ExpressionStatement"

LastExpression == input[Len(input)].expression

\* last_popped_stack_elem is Some(o).
LastPoppedIs(o) ==
    /\ last_popped_stack_elem.some
    /\ HasValue(o) => ObjEq(last_popped_stack_elem.value, o)

\* C33: when run completes without error on a program whose last statement
\* is an expression statement, last_popped_stack_elem is the value of that
\* expression and the operand stack holds no leftover value of it.
C33_LastPoppedIsTheResult ==
    RanToExpression
    => /\ LastPoppedIs(Value(LastExpression))
       /\ sp = 0
       /\ stack = << >>

\* `let a = 2; a;` has run and left 2; so has `if (1 < 2) { 1; 2 }`.
C33_Witness ==
    /\ RanToExpression
    /\ \/ /\ Len(input) = 2
          /\ input[1] = LetStatement("a", Int2)
          /\ LastExpression = Identifier("a")
       \/ /\ LastExpression.kind = "IfExpression"
          /\ Len(LastExpression.consequence) = 2
          /\ Truthy(Value(LastExpression.condition))
    /\ HasValue(Value(LastExpression))
    /\ ObjEq(last_popped_stack_elem.value, Integer(2))

(***************************************************************************)
(* num_locals                                                              *)
(***************************************************************************)

RECURSIVE LetsOfExpression(_)

RECURSIVE LetsOfBlock(_)

\* The let statements of a block that are not inside a function literal of
\* the block.
LetsOfBlock(statements) ==
    IF statements = << >> THEN 0
    ELSE LET stmt == Head(statements)
         IN  (CASE stmt.kind = "LetStatement" ->
                      1 + LetsOfExpression(stmt.value)
                [] stmt.kind = "ReturnStatement" ->
                      LetsOfExpression(stmt.return_value)
                [] OTHER -> LetsOfExpression(stmt.expression))
             + LetsOfBlock(Tail(statements))

\* The let statements inside an expression, those of its function literals
\* left out.
LetsOfExpression(e) ==
    CASE e.kind = "IfExpression" ->
            LetsOfExpression(e.condition) + LetsOfBlock(e.consequence)
                + LetsOfBlock(e.alternative.statements)
      [] e.kind = "PrefixExpression" -> LetsOfExpression(e.right)
      [] e.kind = "InfixExpression" ->
            LetsOfExpression(e.left) + LetsOfExpression(e.right)
      [] e.kind = "IndexExpression" ->
            LetsOfExpression(e.left) + LetsOfExpression(e.index)
      [] OTHER -> 0

\* The definitions made in the scope of the function literal f itself: its
\* parameters and the lets of its body.
OwnDefinitions(f) == Len(f.parameters) + LetsOfBlock(f.body)

\* The function literals of the last compile, as logged.
LoggedFunctions ==
    { i \in DOMAIN compile_log : compile_log[i].node = "FunctionLiteral" }

\* constants[i] is the CompiledFunction of the logged function literal l.
IsFunctionOf(i, l) ==
    /\ constants[i].t = "CompiledFunction"
    /\ constants[i].v.instructions = l.out
    /\ constants[i].v.num_locals = OwnDefinitions(l.exp)

FunctionConstants ==
    { i \in DOMAIN constants : constants[i].t = "CompiledFunction" }

\* C34: the num_locals recorded in a CompiledFunction is the number of
\* definitions made in that function's own scope: its P parameters
\* (indices 0..P-1) and every let in its body, not those of enclosing or
\* nested functions.
C34_NumLocalsCountsOwnScope ==
    (session = "repl" /\ result \in { "compiled", "none", "ok", "run_err" })
    => /\ \A k \in LoggedFunctions :
             /\ \E i \in FunctionConstants : IsFunctionOf(i, compile_log[k])
             /\ \A p \in DOMAIN compile_log[k].exp.parameters :
                   LET name == compile_log[k].exp.parameters[p]
                       table == StackLast(compile_log[k].symbols)
                   IN  \/ table.store[name].index = p - 1
                       \/ table.store[name].index >= Len(compile_log[k].exp.parameters)
       /\ inputs = 1 =>
             \A i \in FunctionConstants :
                \E k \in LoggedFunctions : IsFunctionOf(i, compile_log[k])

\* `fn(a, b) { let c = 1; fn() { let d = a; b } }` is compiled: three
\* locals for the outer function, one for the inner one.
C34_Witness ==
    /\ session = "repl"
    /\ result = "compiled"
    /\ inputs = 1
    /\ input[1] = ExpressionStatement(NestedReadingOuter)
    /\ \E i, j \in FunctionConstants :
          /\ constants[i].v.num_locals = 3
          /\ constants[j].v.num_locals = 1

(***************************************************************************)
(* Disassembly                                                             *)
(***************************************************************************)

\* The number a sequence of decimal digits writes.
RECURSIVE DigitsValue(_)
DigitsValue(digits) ==
    IF digits = << >> THEN 0
    ELSE DigitsValue(SubSeq(digits, 1, Len(digits) - 1)) * 10
             + digits[Len(digits)]

\* The byte position at which the k-th of the instructions made of items
\* starts: the lengths of the instructions before it.
StartOf(items, k) ==
    SumSeq([j \in 1..(k - 1) |->
               1 + SumSeq(OperandWidth(items[j].op))])

\* The line breaks of the text.
LineBreaks(out) == SumSeq([k \in DOMAIN out |-> out[k].breaks])

\* C35: for a concatenation of well-formed instructions the disassembler's
\* walk emits exactly one line per instruction; the offsets of the lines
\* are strictly increasing and each is the byte position at which its
\* instruction starts (the walk advances by 1 plus the operand bytes of the
\* decoded opcode).
C35_DisassemblyFollowsInstructions ==
    code_call.fn = "fmt"
    => /\ ~code_call.panic
       /\ Len(code_call.out) = Len(code_call.operands)
       /\ LineBreaks(code_call.out) = Len(code_call.operands)
       /\ \A k \in DOMAIN code_call.out :
             /\ DigitsValue(code_call.out[k].offset)
                    = StartOf(code_call.operands, k)
             /\ code_call.out[k].name = code_call.operands[k].op
             /\ k > 1 => DigitsValue(code_call.out[k].offset)
                             > DigitsValue(code_call.out[k - 1].offset)

\* Two instructions are disassembled, the first with a two-byte operand:
\* the second line has the offset 0003.
C35_Witness ==
    /\ code_call.fn = "fmt"
    /\ Len(code_call.operands) = 2
    /\ code_call.operands[1].op = "OpConstant"
    /\ Len(code_call.out) = 2
    /\ code_call.out[2].offset = << 0, 0, 0, 3 >>

(***************************************************************************)
(* Emission and the compilation scopes                                     *)
(***************************************************************************)

\* The scope that is the current one before the step.
CurrentIndex == compiler.scope_index + 1

\* emit(op) appends the instruction to the current scope, whose former
\* last instruction becomes the previous one; no other scope changes.
EmitGoesToCurrentScope ==
    (scope_call' = "emit")
    => /\ compiler'.scope_index = compiler.scope_index
       /\ Len(compiler'.scopes) = Len(compiler.scopes)
       /\ \A j \in DOMAIN compiler.scopes :
             j # CurrentIndex => compiler'.scopes[j] = compiler.scopes[j]
       /\ \E op \in ScopeOpcodes :
             /\ compiler'.scopes[CurrentIndex].instructions
                    = compiler.scopes[CurrentIndex].instructions \o Make(op)
             /\ compiler'.scopes[CurrentIndex].last_instruction
                    = EmittedInstruction(
                          op, Len(compiler.scopes[CurrentIndex].instructions))
       /\ compiler'.scopes[CurrentIndex].previous_instruction
              = compiler.scopes[CurrentIndex].last_instruction

\* enter_scope makes a new, empty scope the current one and leaves the
\* scopes there are as they are.
EnterOpensEmptyScope ==
    (scope_call' = "enter_scope")
    => /\ compiler'.scopes = Append(compiler.scopes, NewCompilationScope)
       /\ compiler'.scope_index = Len(compiler.scopes)

\* leave_scope with an enclosing scope returns the instructions of the
\* scope it leaves and makes the enclosing scope the current one, its
\* bytes and its last and previous records as they were.
LeaveReturnsScope ==
    (scope_call' = "leave_scope" /\ Len(compiler.scopes) > 1)
    => /\ scope_returned' = compiler.scopes[CurrentIndex].instructions
       /\ compiler'.scopes
              = SubSeq(compiler.scopes, 1, Len(compiler.scopes) - 1)
       /\ compiler'.scope_index = compiler.scope_index - 1
       /\ IsOk(compiler')

\* C36: instructions emitted between enter_scope and the matching
\* leave_scope go only to the new scope and are what leave_scope returns;
\* the enclosing scope's bytes and its last/previous records are unchanged
\* by them, and an emission after leave_scope appends to the enclosing
\* scope and makes its former last instruction the previous one.
C36_ScopesKeepEmissionsApart ==
    /\ [][EmitGoesToCurrentScope]_vars
    /\ [][EnterOpensEmptyScope]_vars
    /\ [][LeaveReturnsScope]_vars

\* OpMul; enter_scope; OpSub; leave_scope has returned OpSub alone, and the
\* emission after it has made OpMul the previous instruction of the
\* enclosing scope.
C36_Witness ==
    /\ scope_call = "emit"
    /\ IsOk(compiler)
    /\ scope_returned = Make("OpSub")
    /\ Len(compiler.scopes) = 1
    /\ Len(compiler.scopes[1].instructions) = 2
    /\ compiler.scopes[1].instructions[1] = OpByte("OpMul")
    /\ compiler.scopes[1].previous_instruction
           = EmittedInstruction("OpMul", 0)

(***************************************************************************)
(* The symbol stack after compile                                          *)
(***************************************************************************)

\* compile has returned, Ok or Err.
CompileReturned ==
    session = "repl" /\ result \in { "compiled", "compile_err" }

\* The let statements of the last compile that are outside every function
\* were defined on a stack of one table: as Global.
TopLevelLetsAreGlobal ==
    \A k \in DOMAIN compile_log :
       (compile_log[k].node = "LetStatement"
            /\ compile_log[k].scope_index = 0)
       => Len(compile_log[k].symbols) = 1

\* A compile that returns Ok leaves the symbol stack at the depth it had.
OkKeepsDepth ==
    [][(session' = "repl" /\ result' = "compiled")
           => Len(symbol_table_stack') = Len(symbol_table_stack)]_vars

\* C37: after any call to compile, whether it returns Ok or Err (an error
\* raised while compiling a function body included), the symbol table stack
\* its caller owns is back at depth 1, so that a top-level let of the next
\* program compiled with it is defined as Global.
C37_CompileLeavesDepthOne ==
    CompileReturned
    => /\ Len(symbol_table_stack) = 1
       /\ TopLevelLetsAreGlobal

(***************************************************************************)
(* Local slots                                                             *)
(***************************************************************************)

\* The logged node l has emitted OpGetLocal or OpSetLocal as its own
\* instruction.
EmitsLocal(l) ==
    /\ Len(l.out) = Len(l.mid) + 2
    /\ l.out[Len(l.mid) + 1] \in { OpByte("OpGetLocal"), OpByte("OpSetLocal") }

\* The index that instruction carries.
EmittedLocalIndex(l) == l.out[Len(l.out)]

\* The table of the function in whose body l was compiled.
OwnTable(l) == StackLast(l.symbols)

\* The local slot l names is one of that function's own scope: for an
\* identifier a symbol of the function's table, with that index; for a let
\* the next free index of the function's table.
NamesOwnSlot(l) ==
    IF l.node = "Identifier"
    THEN /\ l.exp.name \in DOMAIN OwnTable(l).store
         /\ OwnTable(l).store[l.exp.name].index = EmittedLocalIndex(l)
         /\ EmittedLocalIndex(l) < OwnTable(l).num_definitions
    ELSE EmittedLocalIndex(l) = OwnTable(l).num_definitions

\* The identifiers and lets of the last compile that emitted a local
\* instruction in a scope of depth d at least.
LocalNodes(d) ==
    { k \in DOMAIN compile_log :
         /\ compile_log[k].node \in { "Identifier", "LetStatement" }
         /\ compile_log[k].scope_index >= d
         /\ EmitsLocal(compile_log[k]) }

\* In the body of a function that is inside no other function, every local
\* index names a slot of that function.
OutermostFunctionsNameOwnSlots ==
    CompileReturned
    => \A k \in LocalNodes(1) :
          compile_log[k].scope_index = 1 => NamesOwnSlot(compile_log[k])

\* C38: every OpGetLocal or OpSetLocal index emitted inside a function body
\* refers to a symbol defined in that same function's scope (a parameter or
\* a let of it), so that it is below the function's num_locals; a name of
\* an enclosing function's scope is never emitted as a local slot of the
\* inner function.
C38_LocalIndexNamesOwnScope ==
    CompileReturned
    => \A k \in LocalNodes(1) : NamesOwnSlot(compile_log[k])

(***************************************************************************)
(* Operands beyond their width                                             *)
(***************************************************************************)

\* The first value that w bytes cannot hold: 2^(8w).
WidthLimit(w) == 256 ^ w

\* The number that bytes write, the first byte the most significant.
RECURSIVE BigEndianValue(_)
BigEndianValue(bytes) ==
    IF bytes = << >> THEN 0
    ELSE BigEndianValue(SubSeq(bytes, 1, Len(bytes) - 1)) * 256
             + bytes[Len(bytes)]

\* The call was given as many operands as the opcode has widths, one at
\* least.
GivenItsOperands ==
    /\ Len(code_call.operands) = Len(OperandWidth(code_call.op))
    /\ code_call.operands # << >>

\* make_with_operands returns, without an error, the opcode byte and the
\* operand modulo 2^(8w) in w bytes.
EncodesModuloWidth ==
    (code_call.fn = "make_with_operands" /\ GivenItsOperands)
    => /\ ~code_call.panic
       /\ Len(code_call.out) = 1 + OperandWidth(code_call.op)[1]
       /\ code_call.out[1] = OpByte(code_call.op)
       /\ BigEndianValue(Tail(code_call.out))
              = code_call.operands[1]
                    % WidthLimit(OperandWidth(code_call.op)[1])

\* read_operands on that instruction gives the operand modulo 2^(8w): the
\* operand itself if and only if it is below 2^(8w).
ReadsBackModuloWidth ==
    (code_call.fn = "read_operands" /\ GivenItsOperands)
    => /\ ~code_call.panic
       /\ Len(code_call.out[1]) = 1
       /\ code_call.out[1][1]
              = code_call.operands[1]
                    % WidthLimit(OperandWidth(code_call.op)[1])
       /\ (code_call.out[1][1] = code_call.operands[1])
              <=> (code_call.operands[1]
                       < WidthLimit(OperandWidth(code_call.op)[1]))

\* C39: make_with_operands encodes an operand v of width w as v mod 2^(8w)
\* and reports no error; reading the instruction back gives v only when
\* v < 2^(8w).
C39_OperandsWrapAtWidth == EncodesModuloWidth /\ ReadsBackModuloWidth

\* 256 was encoded in one byte and read back as 0; 65536 in two bytes
\* likewise.
C39_Witness ==
    /\ code_call.fn = "read_operands"
    /\ GivenItsOperands
    /\ code_call.operands[1] = WidthLimit(OperandWidth(code_call.op)[1])
    /\ code_call.out[1] = << 0 >>

(***************************************************************************)
(* last_popped_stack_elem                                                  *)
(***************************************************************************)

\* The opcodes whose arm calls pop once: the value on top is the last one
\* popped.
OnePopOpcodes ==
    { "OpPop", "OpBang", "OpMinus", "OpJumpNotTruthy", "OpSetGlobal",
      "OpReturn" }

\* The opcodes whose arm calls pop twice: the value under the top is the
\* last one popped.
TwoPopOpcodes ==
    { "OpAdd", "OpSub", "OpMul", "OpDiv", "OpEqual", "OpNotEqual",
      "OpGreaterThan", "OpIndex", "OpReturnValue" }

\* An iteration of run that does not panic.
LoopStep == phase = "run" /\ phase' # "crashed"

\* Only an iteration that fetched OpPop changes last_popped_stack_elem.
OnlyOpPopRecords ==
    (LoopStep /\ last_popped_stack_elem' # last_popped_stack_elem)
    => Fetches({ "OpPop" })

\* C40: only OpPop changes last_popped_stack_elem; the pops that the
\* arithmetic, comparison, prefix, conditional-jump, set-global, index and
\* return opcodes perform, and the removals of OpArray and OpHash, leave it
\* unchanged.
C40_OnlyOpPopChangesLastPopped == [][OnlyOpPopRecords]_vars

\* Every call of pop records the value it takes: after an iteration
\* last_popped_stack_elem is the last value its arm has popped, and it is
\* unchanged when the arm has popped nothing (OpArray and OpHash drain the
\* stack without pop).
EveryPopRecords ==
    LoopStep
    => /\ Fetches(OnePopOpcodes)
             => last_popped_stack_elem' = SomeObject(stack[sp])
       /\ Fetches(TwoPopOpcodes)
             => last_popped_stack_elem' = SomeObject(stack[sp - 1])
       /\ ~Fetches(OnePopOpcodes \cup TwoPopOpcodes)
             => last_popped_stack_elem' = last_popped_stack_elem

\* C40, as the code has it: last_popped_stack_elem is the value most
\* recently popped by any opcode, OpPop or another; only the opcodes that
\* pop nothing, OpArray and OpHash among them, leave it unchanged.
C40_EveryPopChangesLastPopped == [][EveryPopRecords]_vars

\* `let a = 2;` has run: no OpPop is in its code, and the 2 that
\* OpSetGlobal popped is the last popped value.
C40_Witness ==
    /\ session = "repl"
    /\ result = "ok"
    /\ input = << LetStatement("a", Int2) >>
    /\ last_popped_stack_elem = SomeObject(Integer(2))

=============================================================================
